---- MODULE Spec2Model ----
(***************************************************************************)
(* SOQL query construction of mcp-server-salesforce: the sanitizer         *)
(* utilities (utils/soqlSanitizer.ts) and the two query tool handlers      *)
(* (tools/query.ts, tools/aggregateQuery.ts).                              *)
(*                                                                         *)
(* A JavaScript string is a sequence of one-character strings.             *)
(***************************************************************************)
EXTENDS Integers, Sequences, FiniteSets, TLC

VARIABLES
    pc,       \* "idle" | "querying" (awaiting conn.query) | "done"
    fn,       \* name of the function or handler that was called
    args,     \* the arguments of that call
    result,   \* what the call returned or threw
    queries   \* the texts passed to conn.query during the call, in order

vars == <<pc, fn, args, result, queries>>

(***************************************************************************)
(* Characters                                                              *)
(***************************************************************************)
LowerSeq == <<"a","b","c","d","e","f","g","h","i","j","k","l","m",
              "n","o","p","q","r","s","t","u","v","w","x","y","z">>
UpperSeq == <<"A","B","C","D","E","F","G","H","I","J","K","L","M",
              "N","O","P","Q","R","S","T","U","V","W","X","Y","Z">>

Range(f) == {f[i] : i \in DOMAIN f}

LowerLetters == Range(LowerSeq)
UpperLetters == Range(UpperSeq)
Letters == LowerLetters \cup UpperLetters
Digits == {"0","1","2","3","4","5","6","7","8","9"}

BS == "\\"
QUOTE == "'"
NL == "\n"
CR == "\r"
TAB == "\t"
DQUOTE == "\""

\* \w of a JavaScript regular expression (no u flag)
WordChars == Letters \cup Digits \cup {"_"}
\* \s of a JavaScript regular expression, and what String.prototype.trim strips
WhiteSpace == {" ", TAB, NL, CR}
Punctuation == {".", ",", ";", ":", QUOTE, DQUOTE, BS, "(", ")", "=", "*", "-", "/", "<", ">", "!"}
AllChars == WordChars \cup WhiteSpace \cup Punctuation
\* . of a JavaScript regular expression (no s flag): anything but a line terminator
DotChars == AllChars \ {NL, CR}

UpperChar(c) ==
    IF c \in LowerLetters
    THEN UpperSeq[CHOOSE i \in DOMAIN LowerSeq : LowerSeq[i] = c]
    ELSE c

LowerChar(c) ==
    IF c \in UpperLetters
    THEN LowerSeq[CHOOSE i \in DOMAIN UpperSeq : UpperSeq[i] = c]
    ELSE c

toUpperCase(s) == [i \in 1..Len(s) |-> UpperChar(s[i])]

(***************************************************************************)
(* String.prototype methods                                                *)
(***************************************************************************)
startsWithAt(s, sub, i) ==
    /\ i + Len(sub) - 1 <= Len(s)
    /\ \A k \in 1..Len(sub) : s[i + k - 1] = sub[k]

includes(s, sub) == \E i \in 1..(Len(s) + 1) : startsWithAt(s, sub, i)

startsWith(s, sub) == startsWithAt(s, sub, 1)

endsWith(s, sub) == Len(sub) <= Len(s) /\ startsWithAt(s, sub, Len(s) - Len(sub) + 1)

RECURSIVE trimStart(_)
trimStart(s) ==
    IF s # <<>> /\ Head(s) \in WhiteSpace THEN trimStart(Tail(s)) ELSE s

RECURSIVE trimEnd(_)
trimEnd(s) ==
    IF s # <<>> /\ s[Len(s)] \in WhiteSpace
    THEN trimEnd(SubSeq(s, 1, Len(s) - 1))
    ELSE s

trim(s) == trimEnd(trimStart(s))

RECURSIVE Flatten(_)
Flatten(ss) == IF ss = <<>> THEN <<>> ELSE Head(ss) \o Flatten(Tail(ss))

\* Array.prototype.join
RECURSIVE join(_, _)
join(ss, sep) ==
    IF ss = <<>> THEN <<>>
    ELSE IF Len(ss) = 1 THEN ss[1]
    ELSE ss[1] \o sep \o join(Tail(ss), sep)

\* String.prototype.split with a one-character separator
RECURSIVE splitChar(_, _)
splitChar(s, c) ==
    IF \A i \in 1..Len(s) : s[i] # c THEN <<s>>
    ELSE LET k == CHOOSE i \in 1..Len(s) : s[i] = c /\ \A j \in 1..(i - 1) : s[j] # c
         IN <<SubSeq(s, 1, k - 1)>> \o splitChar(SubSeq(s, k + 1, Len(s)), c)

(***************************************************************************)
(* Regular expressions: a pattern is a tree, Ends(re, s, I) is the set of  *)
(* positions at which a match of re that starts at a position of I ends.   *)
(***************************************************************************)
Cls(S) == [t |-> "set", cs |-> S]
Lit(c) == Cls({c})
\* a literal character under the i flag
LitI(c) == Cls({c, UpperChar(c), LowerChar(c)})
Cat(rs) == [t |-> "cat", rs |-> rs]
Alt(rs) == [t |-> "alt", rs |-> rs]
Star(r) == [t |-> "star", r |-> r]
Plus(r) == Cat(<<r, Star(r)>>)
Opt(r) == Alt(<<r, Cat(<<>>)>>)
Bol == [t |-> "bol"]
Eol == [t |-> "eol"]
WordB == [t |-> "wb"]
Str(s) == Cat([i \in 1..Len(s) |-> Lit(s[i])])
StrI(s) == Cat([i \in 1..Len(s) |-> LitI(s[i])])

IsWordAt(s, i) == i >= 1 /\ i <= Len(s) /\ s[i] \in WordChars

\* where the run of characters of cs that starts at position i of s ends
RunEnd(s, cs, i) ==
    CHOOSE k \in i..(Len(s) + 1) :
        /\ k = Len(s) + 1 \/ s[k] \notin cs
        /\ \A m \in i..(k - 1) : s[m] \in cs

RECURSIVE Ends(_, _, _)
Ends(re, s, I) ==
    CASE re.t = "set" -> {i + 1 : i \in {j \in I : j <= Len(s) /\ s[j] \in re.cs}}
      [] re.t = "cat" -> IF Len(re.rs) = 0 THEN I
                         ELSE Ends(Cat(Tail(re.rs)), s, Ends(Head(re.rs), s, I))
      [] re.t = "alt" -> UNION {Ends(re.rs[k], s, I) : k \in 1..Len(re.rs)}
      [] re.t = "star" -> IF re.r.t = "set"
                          THEN UNION {i..RunEnd(s, re.r.cs, i) : i \in I}
                          ELSE LET J == Ends(re.r, s, I)
                               IN IF J \subseteq I THEN I ELSE Ends(re, s, I \cup J)
      [] re.t = "bol" -> I \cap {1}
      [] re.t = "eol" -> I \cap {Len(s) + 1}
      [] re.t = "wb" -> {i \in I : IsWordAt(s, i - 1) # IsWordAt(s, i)}

\* RegExp.prototype.test on a fresh pattern object (lastIndex = 0)
RegexTest(re, s) == Ends(re, s, 1..(Len(s) + 1)) # {}

\* the outcome of a call: a returned value or a thrown Error
Returned(v) == [ok |-> TRUE, value |-> v]
Threw(err) == [ok |-> FALSE, error |-> err]

(***************************************************************************)
(* escapeSoqlString                                                        *)
(***************************************************************************)
\* String.prototype.replace(/c/g, rep) for a one-character pattern
replaceAll(s, c, rep) == Flatten([i \in 1..Len(s) |-> IF s[i] = c THEN rep ELSE <<s[i]>>])

escapeSoqlStringQuoteFirst(value) ==
    replaceAll(replaceAll(replaceAll(replaceAll(replaceAll(value,
        QUOTE, <<BS, QUOTE>>),
        BS, <<BS, BS>>),
        NL, <<BS, "n">>),
        CR, <<BS, "r">>),
        TAB, <<BS, "t">>)

escapeSoqlStringNoTab(value) ==
    replaceAll(replaceAll(replaceAll(replaceAll(value,
        BS, <<BS, BS>>),
        QUOTE, <<BS, QUOTE>>),
        NL, <<BS, "n">>),
        CR, <<BS, "r">>)

escapeSoqlString(value) ==
    replaceAll(replaceAll(replaceAll(replaceAll(replaceAll(value,
        BS, <<BS, BS>>),
        QUOTE, <<BS, QUOTE>>),
        NL, <<BS, "n">>),
        CR, <<BS, "r">>),
        TAB, <<BS, "t">>)

(***************************************************************************)
(* validateFieldName, validateObjectName                                   *)
(***************************************************************************)
aggregateFunctions == <<
    <<"C","O","U","N","T">>,
    <<"S","U","M">>,
    <<"A","V","G">>,
    <<"M","I","N">>,
    <<"M","A","X">>,
    <<"C","O","U","N","T","_","D","I","S","T","I","N","C","T">>>>
dateTimeFunctions == <<
    <<"C","A","L","E","N","D","A","R","_","Y","E","A","R">>,
    <<"C","A","L","E","N","D","A","R","_","M","O","N","T","H">>,
    <<"C","A","L","E","N","D","A","R","_","Q","U","A","R","T","E","R">>,
    <<"F","I","S","C","A","L","_","Y","E","A","R">>,
    <<"F","I","S","C","A","L","_","Q","U","A","R","T","E","R">>>>

kwSELECT == <<"S","E","L","E","C","T">>
kwFROM == <<"F","R","O","M">>

\* new RegExp(`^${func}\\([\\w\\.]+\\)(\\s+\\w+)?$`, 'i')
functionPattern(func) ==
    Cat(<<Bol, StrI(func), Lit("("), Plus(Cls(WordChars \cup {"."})), Lit(")"),
          Opt(Cat(<<Plus(Cls(WhiteSpace)), Plus(Cls(WordChars))>>)), Eol>>)

IdStart == Cls(Letters \cup {"_"})
IdRest == Cls(Letters \cup Digits \cup {"_"})

\* /^[a-zA-Z_][a-zA-Z0-9_]*(\.[a-zA-Z_][a-zA-Z0-9_]*)*(__c|__r)?$/
fieldNamePattern ==
    Cat(<<Bol, IdStart, Star(IdRest),
          Star(Cat(<<Lit("."), IdStart, Star(IdRest)>>)),
          Opt(Alt(<<Str(<<"_","_","c">>), Str(<<"_","_","r">>)>>)), Eol>>)

objectNamePatternUnanchored ==
    Cat(<<Bol, IdStart, Star(IdRest), Opt(Str(<<"_","_","c">>))>>)

\* /^[a-zA-Z_][a-zA-Z0-9_]*(__c)?$/
objectNamePattern ==
    Cat(<<Bol, IdStart, Star(IdRest), Opt(Str(<<"_","_","c">>)), Eol>>)

\* new Error(<template literal>): the template as written in the source, and the
\* values interpolated into it, in order
Error(template, values) == [template |-> template, values |-> values]

\* the functions of [...aggregateFunctions, ...dateTimeFunctions] whose `${func}(`
\* occurs in upperField, by index in that array
FunctionHits(upperField) ==
    LET funcs == aggregateFunctions \o dateTimeFunctions
    IN {k \in 1..Len(funcs) : includes(upperField, funcs[k] \o <<"(">>)}

Min(S) == CHOOSE x \in S : \A y \in S : x <= y

IsSubqueryShaped(fieldName) ==
    startsWith(trim(fieldName), <<"(">>) /\ endsWith(trim(fieldName), <<")">>)

CheckFunction(fieldName, func) ==
    IF ~RegexTest(functionPattern(func), trim(fieldName))
    THEN Threw(Error("Invalid ${func} function syntax: ${fieldName}", <<func, fieldName>>))
    ELSE Returned(fieldName)

CheckSubquery(fieldName) ==
    IF ~includes(fieldName, kwSELECT) \/ ~includes(fieldName, kwFROM)
    THEN Threw(Error("Invalid subquery syntax: ${fieldName}", <<fieldName>>))
    ELSE Returned(fieldName)

CheckPlainField(fieldName) ==
    IF ~RegexTest(fieldNamePattern, fieldName)
    THEN Threw(Error("Invalid field name: ${fieldName}. Field names must contain only alphanumeric characters, underscores, and dots for relationships.",
                     <<fieldName>>))
    ELSE Returned(fieldName)

validateFieldNameSubqueryFirst(fieldName) ==
    LET funcs == aggregateFunctions \o dateTimeFunctions
        hits == FunctionHits(toUpperCase(fieldName))
    IN IF IsSubqueryShaped(fieldName) THEN CheckSubquery(fieldName)
       ELSE IF hits # {} THEN CheckFunction(fieldName, funcs[Min(hits)])
       ELSE CheckPlainField(fieldName)

validateFieldName(fieldName) ==
    LET funcs == aggregateFunctions \o dateTimeFunctions
        hits == FunctionHits(toUpperCase(fieldName))
    IN IF hits # {} THEN CheckFunction(fieldName, funcs[Min(hits)])
       ELSE IF IsSubqueryShaped(fieldName) THEN CheckSubquery(fieldName)
       ELSE CheckPlainField(fieldName)

validateObjectName(objectName) ==
    IF ~RegexTest(objectNamePattern, objectName)
    THEN Threw(Error("Invalid object name: ${objectName}. Object names must contain only alphanumeric characters and underscores.",
                     <<objectName>>))
    ELSE Returned(objectName)

(***************************************************************************)
(* validateLimit.  A JavaScript number is NaN, Infinity, -Infinity or a    *)
(* rational k / Scale.                                                     *)
(***************************************************************************)
Scale == 2
Finite(k) == [kind |-> "finite", k |-> k]
NaN == [kind |-> "NaN", k |-> 0]
PosInfinity == [kind |-> "Infinity", k |-> 0]
NegInfinity == [kind |-> "-Infinity", k |-> 0]
NonFinite == {NaN, PosInfinity, NegInfinity}

\* the number that is the integer n
NumberOf(n) == Finite(n * Scale)
\* Number.isInteger
IsInteger(x) == x.kind = "finite" /\ x.k % Scale = 0
\* x < n and x > n for an integer n, as IEEE comparison decides them
LessThan(x, n) == x = NegInfinity \/ (x.kind = "finite" /\ x.k < n * Scale)
GreaterThan(x, n) == x = PosInfinity \/ (x.kind = "finite" /\ x.k > n * Scale)

MAX_LIMIT == 50000

validateLimitOffByOne(limit) ==
    IF ~IsInteger(limit) \/ LessThan(limit, 1)
    THEN Threw(Error("LIMIT must be a positive integer", <<>>))
    ELSE IF ~LessThan(limit, MAX_LIMIT)
    THEN Threw(Error("LIMIT cannot exceed 50000", <<>>))
    ELSE Returned(limit)

validateLimit(limit) ==
    IF ~IsInteger(limit) \/ LessThan(limit, 1)
    THEN Threw(Error("LIMIT must be a positive integer", <<>>))
    ELSE IF GreaterThan(limit, MAX_LIMIT)
    THEN Threw(Error("LIMIT cannot exceed 50000", <<>>))
    ELSE Returned(limit)

(***************************************************************************)
(* sanitizeWhereClause                                                     *)
(***************************************************************************)
Undefined == [defined |-> FALSE]
Some(v) == [defined |-> TRUE, v |-> v]
\* truthiness of an optional string argument: defined and not ''
TruthyString(x) == x.defined /\ x.v # <<>>

dangerousKeywords == <<
    <<"U","N","I","O","N">>, <<"S","E","L","E","C","T">>, <<"I","N","S","E","R","T">>, <<"U","P","D","A","T","E">>, <<"D","E","L","E","T","E">>,
    <<"D","R","O","P">>, <<"C","R","E","A","T","E">>, <<"A","L","T","E","R">>, <<"E","X","E","C">>, <<"E","X","E","C","U","T","E">>>>
dangerousTokens == <<
    <<";">>, <<"-","-">>, <<"*">>, <<"/","*">>, <<"*","/">>, <<"x","p","_">>, <<"s","p","_">>>>

\* /(\bOR\b\s+\d+\s*=\s*\d+)/gi and /(\bAND\b\s+\d+\s*=\s*\d+)/gi
tautologyPattern(word) ==
    Cat(<<WordB, StrI(word), WordB, Plus(Cls(WhiteSpace)), Plus(Cls(Digits)),
          Star(Cls(WhiteSpace)), Lit("="), Star(Cls(WhiteSpace)), Plus(Cls(Digits))>>)

dangerousPatterns == <<
    \* /(\b(UNION|SELECT|INSERT|UPDATE|DELETE|DROP|CREATE|ALTER|EXEC|EXECUTE)\b)/gi
    Cat(<<WordB, Alt([k \in 1..Len(dangerousKeywords) |-> StrI(dangerousKeywords[k])]), WordB>>),
    \* /(;|--|\*|\/\*|\*\/|xp_|sp_)/gi
    Alt([k \in 1..Len(dangerousTokens) |-> StrI(dangerousTokens[k])]),
    tautologyPattern(<<"O","R">>),
    tautologyPattern(<<"A","N","D">>)>>

sanitizeWhereClauseTrimmed(whereClause) ==
    IF whereClause = <<>> \/ trim(whereClause) = <<>> THEN Returned(<<>>)
    ELSE IF \E k \in 1..Len(dangerousPatterns) : RegexTest(dangerousPatterns[k], whereClause)
    THEN Threw(Error("Potentially dangerous SQL pattern detected in WHERE clause", <<>>))
    ELSE Returned(trim(whereClause))

\* whereClause is a string here
sanitizeWhereClause(whereClause) ==
    IF whereClause = <<>> \/ trim(whereClause) = <<>> THEN Returned(<<>>)
    ELSE IF \E k \in 1..Len(dangerousPatterns) : RegexTest(dangerousPatterns[k], whereClause)
    THEN Threw(Error("Potentially dangerous SQL pattern detected in WHERE clause", <<>>))
    ELSE Returned(whereClause)

MAX_FIELD_LENGTH == 255
MAX_QUERY_LENGTH == 10000
MAX_WHERE_LENGTH == 5000

(***************************************************************************)
(* Number to string, as a template literal does it                         *)
(***************************************************************************)
DigitSeq == <<"0","1","2","3","4","5","6","7","8","9">>
MaxFractionDigits == 16

RECURSIVE NatToString(_)
NatToString(n) ==
    IF n < 10 THEN <<DigitSeq[n + 1]>>
    ELSE NatToString(n \div 10) \o <<DigitSeq[(n % 10) + 1]>>

\* the decimal digits of r / Scale, 0 <= r < Scale
RECURSIVE FractionToString(_, _)
FractionToString(r, places) ==
    IF r = 0 \/ places = 0 THEN <<>>
    ELSE <<DigitSeq[((r * 10) \div Scale) + 1]>> \o FractionToString((r * 10) % Scale, places - 1)

NumberToString(x) ==
    CASE x = NaN -> <<"N","a","N">>
      [] x = PosInfinity -> <<"I","n","f","i","n","i","t","y">>
      [] x = NegInfinity -> <<"-","I","n","f","i","n","i","t","y">>
      [] OTHER ->
            LET a == IF x.k < 0 THEN 0 - x.k ELSE x.k
                sign == IF x.k < 0 THEN <<"-">> ELSE <<>>
                frac == FractionToString(a % Scale, MaxFractionDigits)
            IN sign \o NatToString(a \div Scale) \o (IF frac = <<>> THEN <<>> ELSE <<".">> \o frac)

\* truthiness of an optional number argument: defined, not 0, not NaN
TruthyNumber(x) == x.defined /\ x.v # NaN /\ x.v # Finite(0)

\* validateInputLength(input, maxLength, fieldName); maxLength is a natural number
validateInputLength(input, maxLength, fieldName) ==
    IF Len(input) > maxLength
    THEN Threw(Error("${fieldName} exceeds maximum length of ${maxLength} characters",
                     <<fieldName, NatToString(maxLength)>>))
    ELSE Returned(<<>>)

(***************************************************************************)
(* buildSafeWhereClause.  A JavaScript value carries its type.             *)
(***************************************************************************)
JsNull == [type |-> "null"]
JsUndefined == [type |-> "undefined"]
JsString(s) == [type |-> "string", str |-> s]
JsNumber(x) == [type |-> "number", num |-> x]
JsBoolean(b) == [type |-> "boolean", bool |-> b]
JsArray(xs) == [type |-> "array", items |-> xs]
\* a Date holds a time value, day * MsPerDay + ms with 0 <= ms < MsPerDay, or
\* NaN (an invalid Date)
JsDate(day, ms) == [type |-> "date", valid |-> TRUE, day |-> day, ms |-> ms]
JsInvalidDate == [type |-> "date", valid |-> FALSE, day |-> 0, ms |-> 0]
\* a value of another type: a plain object, a function, a symbol, a bigint
JsOther(t) == [type |-> "other", typeof |-> t]

RECURSIVE PadStart(_, _)
PadStart(s, width) == IF Len(s) >= width THEN s ELSE PadStart(<<"0">> \o s, width)

MsPerDay == 86400000

\* Date.prototype.toISOString: YYYY-MM-DDTHH:mm:ss.sssZ in UTC, the year with a
\* sign and six digits outside 0..9999; a RangeError on an invalid Date
toISOString(d) ==
    IF ~d.valid THEN Threw(Error("Invalid time value", <<>>))
    ELSE
    LET days == d.day
        rest == d.ms
        z == days + 719468
        era == z \div 146097
        doe == z - era * 146097
        yoe == (doe - (doe \div 1460) + (doe \div 36524) - (doe \div 146096)) \div 365
        doy == doe - (365 * yoe + (yoe \div 4) - (yoe \div 100))
        mp == (5 * doy + 2) \div 153
        day == doy - ((153 * mp + 2) \div 5) + 1
        month == IF mp < 10 THEN mp + 3 ELSE mp - 9
        year == yoe + era * 400 + (IF month <= 2 THEN 1 ELSE 0)
        yearText == IF year >= 0 /\ year <= 9999 THEN PadStart(NatToString(year), 4)
                    ELSE IF year < 0 THEN <<"-">> \o PadStart(NatToString(0 - year), 6)
                    ELSE <<"+">> \o PadStart(NatToString(year), 6)
    IN Returned(yearText \o <<"-">> \o PadStart(NatToString(month), 2)
                \o <<"-">> \o PadStart(NatToString(day), 2)
                \o <<"T">> \o PadStart(NatToString(rest \div 3600000), 2)
                \o <<":">> \o PadStart(NatToString((rest \div 60000) % 60), 2)
                \o <<":">> \o PadStart(NatToString((rest \div 1000) % 60), 2)
                \o <<".">> \o PadStart(NatToString(rest % 1000), 3) \o <<"Z">>)

validOperators == <<
    <<"=">>, <<"!","=">>, <<"<",">">>, <<"<">>, <<">">>, <<"<","=">>, <<">","=">>, <<"L","I","K","E">>, <<"I","N">>, <<"N","O","T"," ","I","N">>, <<"I","N","C","L","U","D","E","S">>, <<"E","X","C","L","U","D","E","S">>>>

arrayOperators == <<<<"I","N">>, <<"N","O","T"," ","I","N">>, <<"I","N","C","L","U","D","E","S">>, <<"E","X","C","L","U","D","E","S">>>>

Quoted(s) == <<QUOTE>> \o s \o <<QUOTE>>

\* the step of Array.prototype.map with a callback that may throw: the first
\* throw ends the map
MapStep(first, rest) ==
    IF ~first.ok THEN first
    ELSE IF ~rest.ok THEN rest
    ELSE Returned(<<first.value>> \o rest.value)

\* array.join(sep) of a map that may have thrown
Joined(mapped, sep) == IF ~mapped.ok THEN mapped ELSE Returned(join(mapped.value, sep))

\* prefix + text + suffix of a text whose computation may have thrown
Wrapped(prefix, text, suffix) ==
    IF ~text.ok THEN text ELSE Returned(prefix \o text.value \o suffix)

\* the callback of condition.value.map: one array element
serializeElement(v) ==
    IF v.type = "string" THEN Returned(Quoted(escapeSoqlString(v.str)))
    ELSE IF v.type = "number" THEN Returned(NumberToString(v.num))
    ELSE Threw(Error("Array values must be strings or numbers", <<>>))

\* condition.value.map(...)
RECURSIVE serializeElements(_)
serializeElements(xs) ==
    IF xs = <<>> THEN Returned(<<>>)
    ELSE MapStep(serializeElement(Head(xs)), serializeElements(Tail(xs)))

\* the if-chain over the type of condition.value
serializeValueAnyOperator(condition) ==
    LET value == condition.value
    IN CASE value.type = "null" -> Returned(<<"N","U","L","L">>)
         [] value.type = "undefined" ->
               Threw(Error("Undefined values are not allowed in WHERE clauses", <<>>))
         [] value.type = "string" -> Returned(Quoted(escapeSoqlString(value.str)))
         [] value.type = "number" -> Returned(NumberToString(value.num))
         [] value.type = "boolean" -> Returned(IF value.bool THEN <<"T","R","U","E">> ELSE <<"F","A","L","S","E">>)
         [] value.type = "array" ->
               Wrapped(<<"(">>, Joined(serializeElements(value.items), <<",", " ">>), <<")">>)
         [] value.type = "date" -> toISOString(value)
         [] OTHER -> Threw(Error("Unsupported value type: ${typeof condition.value}", <<value.typeof>>))

serializeValue(condition) ==
    LET value == condition.value
    IN CASE value.type = "null" -> Returned(<<"N","U","L","L">>)
         [] value.type = "undefined" ->
               Threw(Error("Undefined values are not allowed in WHERE clauses", <<>>))
         [] value.type = "string" -> Returned(Quoted(escapeSoqlString(value.str)))
         [] value.type = "number" -> Returned(NumberToString(value.num))
         [] value.type = "boolean" -> Returned(IF value.bool THEN <<"T","R","U","E">> ELSE <<"F","A","L","S","E">>)
         [] value.type = "array" ->
               IF toUpperCase(condition.operator) \notin Range(arrayOperators)
               THEN Threw(Error("Array values can only be used with IN, NOT IN, INCLUDES, or EXCLUDES operators", <<>>))
               ELSE Wrapped(<<"(">>, Joined(serializeElements(value.items), <<",", " ">>), <<")">>)
         [] value.type = "date" -> toISOString(value)
         [] OTHER -> Threw(Error("Unsupported value type: ${typeof condition.value}", <<value.typeof>>))

\* the callback of conditions.map, given its validated field and serialized value
clauseOfOperatorAsGiven(condition, safeField, safeValue) ==
    IF ~safeField.ok THEN safeField
    ELSE IF toUpperCase(condition.operator) \notin Range(validOperators)
    THEN Threw(Error("Invalid operator: ${condition.operator}", <<condition.operator>>))
    ELSE IF ~safeValue.ok THEN safeValue
    ELSE Returned(safeField.value \o <<" ">> \o condition.operator
                  \o <<" ">> \o safeValue.value)

clauseOf(condition, safeField, safeValue) ==
    IF ~safeField.ok THEN safeField
    ELSE IF toUpperCase(condition.operator) \notin Range(validOperators)
    THEN Threw(Error("Invalid operator: ${condition.operator}", <<condition.operator>>))
    ELSE IF ~safeValue.ok THEN safeValue
    ELSE Returned(safeField.value \o <<" ">> \o toUpperCase(condition.operator)
                  \o <<" ">> \o safeValue.value)

\* the callback of conditions.map: one condition
safeClause(condition) ==
    clauseOf(condition, validateFieldName(condition.field), serializeValue(condition))

\* conditions.map(...)
RECURSIVE safeClauses(_)
safeClauses(conditions) ==
    IF conditions = <<>> THEN Returned(<<>>)
    ELSE MapStep(safeClause(Head(conditions)), safeClauses(Tail(conditions)))

buildSafeWhereClause(conditions) == Joined(safeClauses(conditions), <<" ","A","N","D"," ">>)

(***************************************************************************)
(* tools/query.ts                                                          *)
(***************************************************************************)
\* /^\(SELECT.*FROM.*\)$/
subqueryPattern ==
    Cat(<<Bol, Str(<<"(">> \o kwSELECT), Star(Cls(DotChars)), Str(kwFROM),
          Star(Cls(DotChars)), Lit(")"), Eol>>)

RelationshipOk == [isValid |-> TRUE]
RelationshipError(template, field) ==
    [isValid |-> FALSE, error |-> Error(template, <<field>>)]

validateRelationshipField(field) ==
    LET parts == splitChar(field, ".")
    IN IF includes(field, <<".">>) /\ (\E k \in 1..Len(parts) : parts[k] = <<>>)
       THEN RelationshipError("Invalid relationship field format: \"${field}\". Relationship fields should use proper dot notation (e.g., \"Account.Name\")", field)
       ELSE IF includes(field, <<".">>) /\ Len(parts) > 5
       THEN RelationshipError("Relationship field \"${field}\" exceeds maximum depth of 5 levels", field)
       ELSE IF includes(field, kwSELECT) /\ ~RegexTest(subqueryPattern, field)
       THEN RelationshipError("Invalid subquery format: \"${field}\". Child relationship queries should be wrapped in parentheses", field)
       ELSE RelationshipOk

\* the loop over fields: the first field with an error decides
RECURSIVE validateRelationshipFields(_)
validateRelationshipFields(fields) ==
    IF fields = <<>> THEN RelationshipOk
    ELSE LET r == validateRelationshipField(Head(fields))
         IN IF ~r.isValid THEN r ELSE validateRelationshipFields(Tail(fields))

\* fields.map(field => validateFieldName(field)): the first throw ends the map
RECURSIVE mapValidateFieldName(_)
mapValidateFieldName(fields) ==
    IF fields = <<>> THEN Returned(<<>>)
    ELSE LET r == validateFieldName(Head(fields))
         IN IF ~r.ok THEN r
            ELSE LET rest == mapValidateFieldName(Tail(fields))
                 IN IF ~rest.ok THEN rest ELSE Returned(<<r.value>> \o rest.value)

OrderItem ==
    Cat(<<IdStart, Star(Cls(Letters \cup Digits \cup {"_", "."})),
          Opt(Cat(<<Plus(Cls(WhiteSpace)),
                    Alt(<<StrI(<<"A","S","C">>), StrI(<<"D","E","S","C">>)>>)>>))>>)

\* /^[a-zA-Z_][a-zA-Z0-9_\.]*(\s+(ASC|DESC))?(\s*,\s*[a-zA-Z_][a-zA-Z0-9_\.]*(\s+(ASC|DESC))?)*$/i
orderByPattern ==
    Cat(<<Bol, OrderItem,
          Star(Cat(<<Star(Cls(WhiteSpace)), Lit(","), Star(Cls(WhiteSpace)), OrderItem>>)),
          Eol>>)

\* the outcome of the synchronous part of a handler: a result object returned
\* without querying, or a query text handed to conn.query
ToolResult(isError, template, values) ==
    [isError |-> isError, text |-> Error(template, values)]
ReturnNow(res) == [submit |-> FALSE, result |-> res]
Submit(soql) == [submit |-> TRUE, soql |-> soql]

\* the message of an Error: where a needle can occur is in the interpolated
\* values (no template of this code holds INVALID_FIELD, 'No such column ',
\* 'Invalid field: ', MALFORMED_QUERY or GROUP BY)
MessageIncludes(err, needle) == \E k \in 1..Len(err.values) : includes(err.values[k], needle)

\* errorMessage.match(/(?:No such column |Invalid field: )['"]?([^'")\s]+)/)?.[1]
FieldEnd == {QUOTE, DQUOTE, ")"} \cup WhiteSpace
RECURSIVE FieldRun(_, _)
FieldRun(msg, i) ==
    IF i <= Len(msg) /\ msg[i] \notin FieldEnd THEN <<msg[i]>> \o FieldRun(msg, i + 1) ELSE <<>>

FieldMatchAt(msg, i) ==
    LET p1 == <<"N","o"," ","s","u","c","h"," ","c","o","l","u","m","n"," ">>
        p2 == <<"I","n","v","a","l","i","d"," ","f","i","e","l","d",":"," ">>
        j == IF startsWithAt(msg, p1, i) THEN i + Len(p1)
             ELSE IF startsWithAt(msg, p2, i) THEN i + Len(p2) ELSE 0
    IN IF j = 0 THEN <<>>
       ELSE IF j <= Len(msg) /\ msg[j] \in {QUOTE, DQUOTE} THEN FieldRun(msg, j + 1)
       ELSE FieldRun(msg, j)

fieldMatch(msg) ==
    LET hits == {i \in 1..Len(msg) : FieldMatchAt(msg, i) # <<>>}
    IN IF hits = {} THEN <<>> ELSE FieldMatchAt(msg, Min(hits))

\* the catch block of handleQueryRecords
catchQueryRecords(err) ==
    LET matches == {k \in 1..Len(err.values) : fieldMatch(err.values[k]) # <<>>}
        invalidField == IF matches = {} THEN <<>> ELSE fieldMatch(err.values[Min(matches)])
    IN IF MessageIncludes(err, <<"I","N","V","A","L","I","D","_","F","I","E","L","D">>) /\ includes(invalidField, <<".">>)
       THEN ToolResult(TRUE, "Error executing query: Invalid relationship field \"${invalidField}\". Please check: ...",
                       <<invalidField>>)
       ELSE ToolResult(TRUE, "Error executing query: " \o err.template, err.values)

\* handleQueryRecords up to and including the call of conn.query
handleQueryRecordsSync(a) ==
    LET safeObjectName == validateObjectName(a.objectName)
        safeFields == mapValidateFieldName(a.fields)
        validation == validateRelationshipFields(safeFields.value)
        whereTooLong == TruthyString(a.whereClause) /\ Len(a.whereClause.v) > MAX_WHERE_LENGTH
        safeWhereClause == IF TruthyString(a.whereClause)
                           THEN sanitizeWhereClause(a.whereClause.v)
                           ELSE Returned(<<>>)
        orderByBad == TruthyString(a.orderBy) /\ ~RegexTest(orderByPattern, trim(a.orderBy.v))
        safeOrderBy == IF TruthyString(a.orderBy) THEN trim(a.orderBy.v) ELSE <<>>
        safeLimit == IF a.limit.defined THEN validateLimit(a.limit.v) ELSE Returned(NaN)
        soql == <<"S","E","L","E","C","T"," ">> \o join(safeFields.value, <<",", " ">>)
                \o <<" ","F","R","O","M"," ">> \o safeObjectName.value
                \o (IF safeWhereClause.value # <<>>
                    THEN <<" ","W","H","E","R","E"," ">> \o safeWhereClause.value ELSE <<>>)
                \o (IF safeOrderBy # <<>> THEN <<" ","O","R","D","E","R"," ","B","Y"," ">> \o safeOrderBy ELSE <<>>)
                \o (IF a.limit.defined /\ TruthyNumber(Some(safeLimit.value))
                    THEN <<" ","L","I","M","I","T"," ">> \o NumberToString(safeLimit.value) ELSE <<>>)
    IN IF ~safeObjectName.ok THEN ReturnNow(catchQueryRecords(safeObjectName.error))
       ELSE IF ~safeFields.ok THEN ReturnNow(catchQueryRecords(safeFields.error))
       ELSE IF ~validation.isValid
       THEN ReturnNow([isError |-> TRUE, text |-> validation.error])
       ELSE IF whereTooLong
       THEN ReturnNow(ToolResult(TRUE, "WHERE clause exceeds maximum length of ${MAX_WHERE_LENGTH} characters",
                                 <<NatToString(MAX_WHERE_LENGTH)>>))
       ELSE IF ~safeWhereClause.ok THEN ReturnNow(catchQueryRecords(safeWhereClause.error))
       ELSE IF orderByBad
       THEN ReturnNow(ToolResult(TRUE, "Invalid ORDER BY clause format", <<>>))
       ELSE IF ~safeLimit.ok THEN ReturnNow(catchQueryRecords(safeLimit.error))
       ELSE Submit(soql)

\* what conn.query resolved to: the records, each seen only through how its
\* parent relationships read ("object": every path resolves, "null": a parent is
\* null, "undefined": a parent key is absent)
RowKinds == {"object", "null", "undefined"}

\* formatting the records of handleQueryRecords throws a TypeError when a
\* dotted field, not taken for a subquery, is read through an absent parent
formatQueryRecordsThrows(fields, rows) ==
    /\ \E r \in 1..Len(rows) : rows[r] = "undefined"
    /\ \E k \in 1..Len(fields) :
          /\ ~startsWith(fields[k], <<"(">> \o kwSELECT)
          /\ includes(fields[k], <<".">>)

(***************************************************************************)
(* buildSafeOrderBy, buildSafeQuery                                        *)
(***************************************************************************)
directions == <<<<"A","S","C">>, <<"D","E","S","C">>>>

\* allowedFields.some(f => f === safeField || f.startsWith(safeField + ' '))
isAllowedField(allowedFields, safeField) ==
    \E k \in 1..Len(allowedFields) :
        \/ allowedFields[k] = safeField
        \/ startsWith(allowedFields[k], safeField \o <<" ">>)

\* orderBy.direction || 'ASC'
directionOf(orderBy) ==
    IF TruthyString(orderBy.direction) THEN orderBy.direction.v ELSE <<"A","S","C">>

\* the callback of orderByFields.map, given its validated field
orderByEntryOfNoAllowList(orderBy, allowedFields, safeField) ==
    IF ~safeField.ok THEN safeField
    ELSE IF directionOf(orderBy) \notin Range(directions)
    THEN Threw(Error("ORDER BY direction must be ASC or DESC", <<>>))
    ELSE Returned(safeField.value \o <<" ">> \o directionOf(orderBy))

orderByEntryOf(orderBy, allowedFields, safeField) ==
    IF ~safeField.ok THEN safeField
    ELSE IF allowedFields.defined /\ ~isAllowedField(allowedFields.v, safeField.value)
    THEN Threw(Error("Field ${orderBy.field} is not allowed in ORDER BY clause", <<orderBy.field>>))
    ELSE IF directionOf(orderBy) \notin Range(directions)
    THEN Threw(Error("ORDER BY direction must be ASC or DESC", <<>>))
    ELSE Returned(safeField.value \o <<" ">> \o directionOf(orderBy))

\* the callback of orderByFields.map: one entry
safeOrderByEntry(orderBy, allowedFields) ==
    orderByEntryOf(orderBy, allowedFields, validateFieldName(orderBy.field))

\* orderByFields.map(...)
RECURSIVE safeOrderByEntries(_, _)
safeOrderByEntries(orderByFields, allowedFields) ==
    IF orderByFields = <<>> THEN Returned(<<>>)
    ELSE MapStep(safeOrderByEntry(Head(orderByFields), allowedFields),
                 safeOrderByEntries(Tail(orderByFields), allowedFields))

buildSafeOrderBy(orderByFields, allowedFields) ==
    Joined(safeOrderByEntries(orderByFields, allowedFields), <<",", " ">>)

\* ` WHERE ${buildSafeWhereClause(params.where)}` if conditions exist
whereOf(params) ==
    IF params.where.defined /\ Len(params.where.v) > 0
    THEN Wrapped(<<" ","W","H","E","R","E"," ">>, buildSafeWhereClause(params.where.v), <<>>)
    ELSE Returned(<<>>)

\* ` ORDER BY ${buildSafeOrderBy(params.orderBy)}` if specified
orderByOf(params) ==
    IF params.orderBy.defined /\ Len(params.orderBy.v) > 0
    THEN Wrapped(<<" ","O","R","D","E","R"," ","B","Y"," ">>, buildSafeOrderBy(params.orderBy.v, Undefined), <<>>)
    ELSE Returned(<<>>)

\* validateLimit(params.limit) inside a template literal
limitText(limit) == IF ~limit.ok THEN limit ELSE Returned(NumberToString(limit.value))

\* ` LIMIT ${validateLimit(params.limit)}` if specified
limitOf(params) ==
    IF params.limit.defined
    THEN Wrapped(<<" ","L","I","M","I","T"," ">>, limitText(validateLimit(params.limit.v)), <<>>)
    ELSE Returned(<<>>)

\* the query of buildSafeQuery, given its parts in the order they are computed
queryOf(safeObject, safeFields, where, orderBy, limit) ==
    IF ~safeObject.ok THEN safeObject
    ELSE IF ~safeFields.ok THEN safeFields
    ELSE IF ~where.ok THEN where
    ELSE IF ~orderBy.ok THEN orderBy
    ELSE IF ~limit.ok THEN limit
    ELSE Returned(<<"S","E","L","E","C","T"," ">> \o join(safeFields.value, <<",", " ">>)
                  \o <<" ","F","R","O","M"," ">> \o safeObject.value
                  \o where.value \o orderBy.value \o limit.value)

buildSafeQuery(params) ==
    queryOf(validateObjectName(params.object), mapValidateFieldName(params.fields),
            whereOf(params), orderByOf(params), limitOf(params))

\* RegExp.prototype.test on a pattern object with the g flag, whose lastIndex
\* is given: the search starts there, a match leaves lastIndex at its end, a
\* failure leaves it at 0.  longest: the pattern ends with a greedy repetition.
GlobalTest(re, s, lastIndex, longest) ==
    LET starts == {p \in (lastIndex + 1)..(Len(s) + 1) : Ends(re, s, {p}) # {}}
    IN IF lastIndex > Len(s) \/ starts = {}
       THEN [found |-> FALSE, lastIndex |-> 0]
       ELSE LET ends == Ends(re, s, {Min(starts)})
            IN [found |-> TRUE,
                lastIndex |-> (IF longest
                               THEN CHOOSE e \in ends : \A f \in ends : f <= e
                               ELSE Min(ends)) - 1]

\* the lastIndex of the four pattern objects when the array literal has just
\* been evaluated
FreshPatterns == [k \in 1..Len(dangerousPatterns) |-> 0]

\* the loop over dangerousPatterns from pattern k on, the pattern objects
\* having the given lastIndex values
RECURSIVE testPatterns(_, _, _)
testPatterns(whereClause, lastIndexes, k) ==
    IF k > Len(dangerousPatterns)
    THEN [outcome |-> Returned(whereClause), lastIndexes |-> lastIndexes]
    ELSE LET t == GlobalTest(dangerousPatterns[k], whereClause, lastIndexes[k], k >= 3)
             after == [lastIndexes EXCEPT ![k] = t.lastIndex]
         IN IF t.found
            THEN [outcome |-> Threw(Error("Potentially dangerous SQL pattern detected in WHERE clause", <<>>)),
                  lastIndexes |-> after]
            ELSE testPatterns(whereClause, after, k + 1)

\* sanitizeWhereClause with its pattern objects made explicit
sanitizeWhereClauseWith(whereClause, lastIndexes) ==
    IF whereClause = <<>> \/ trim(whereClause) = <<>>
    THEN [outcome |-> Returned(<<>>), lastIndexes |-> lastIndexes]
    ELSE testPatterns(whereClause, lastIndexes, 1)

\* a call of one of the exported functions, given the state that outlives
\* calls (module): its outcome and the state it leaves
callExportedSharedPatterns(c, module) ==
    CASE c.fn = "validateObjectName" -> [outcome |-> validateObjectName(c.name), module |-> module]
      [] c.fn = "validateFieldName" -> [outcome |-> validateFieldName(c.name), module |-> module]
      [] c.fn = "buildSafeWhereClause" -> [outcome |-> buildSafeWhereClause(c.conditions), module |-> module]
      [] c.fn = "buildSafeOrderBy" ->
            [outcome |-> buildSafeOrderBy(c.orderByFields, c.allowedFields), module |-> module]
      [] c.fn = "buildSafeQuery" -> [outcome |-> buildSafeQuery(c.params), module |-> module]
      [] c.fn = "sanitizeWhereClause" ->
            LET r == sanitizeWhereClauseWith(c.whereClause, module)
            IN [outcome |-> r.outcome, module |-> r.lastIndexes]

\* the pattern objects of sanitizeWhereClause are made anew by each call and
\* dropped at its end; no function reads or writes anything that outlives it
callExported(c, module) ==
    CASE c.fn = "validateObjectName" -> [outcome |-> validateObjectName(c.name), module |-> module]
      [] c.fn = "validateFieldName" -> [outcome |-> validateFieldName(c.name), module |-> module]
      [] c.fn = "buildSafeWhereClause" -> [outcome |-> buildSafeWhereClause(c.conditions), module |-> module]
      [] c.fn = "buildSafeOrderBy" ->
            [outcome |-> buildSafeOrderBy(c.orderByFields, c.allowedFields), module |-> module]
      [] c.fn = "buildSafeQuery" -> [outcome |-> buildSafeQuery(c.params), module |-> module]
      [] c.fn = "sanitizeWhereClause" ->
            [outcome |-> sanitizeWhereClauseWith(c.whereClause, FreshPatterns).outcome,
             module |-> module]

(***************************************************************************)
(* tools/aggregateQuery.ts                                                 *)
(***************************************************************************)
AGGREGATE_FUNCTIONS == <<
    <<"C","O","U","N","T">>, <<"C","O","U","N","T","_","D","I","S","T","I","N","C","T">>, <<"S","U","M">>, <<"A","V","G">>, <<"M","I","N">>, <<"M","A","X">>>>

isAggregateField(field) ==
    \E k \in 1..Len(AGGREGATE_FUNCTIONS) :
        includes(toUpperCase(field), AGGREGATE_FUNCTIONS[k] \o <<"(">>)

\* String.prototype.split(/\s+/)
RECURSIVE splitWhiteSpace(_)
splitWhiteSpace(s) ==
    IF \A i \in 1..Len(s) : s[i] \notin WhiteSpace THEN <<s>>
    ELSE LET k == CHOOSE i \in 1..Len(s) :
                      s[i] \in WhiteSpace /\ \A j \in 1..(i - 1) : s[j] \notin WhiteSpace
         IN <<SubSeq(s, 1, k - 1)>> \o splitWhiteSpace(trimStart(SubSeq(s, k, Len(s))))

extractBaseField(field) == splitWhiteSpace(trim(field))[1]

extractNonAggregateFields(selectFields) ==
    LET NotAggregate(f) == ~isAggregateField(f)
        kept == SelectSeq(selectFields, NotAggregate)
    IN [k \in 1..Len(kept) |-> extractBaseField(kept[k])]

validateGroupByFieldsUntrimmed(selectFields, groupByFields) ==
    LET nonAggregateFields == extractNonAggregateFields(selectFields)
        groupBySet == {groupByFields[k] : k \in 1..Len(groupByFields)}
        Missing(f) == f \notin groupBySet
        missingFields == SelectSeq(nonAggregateFields, Missing)
    IN [isValid |-> Len(missingFields) = 0, missingFields |-> missingFields]

validateGroupByFieldsFirstOnly(selectFields, groupByFields) ==
    LET nonAggregateFields == extractNonAggregateFields(selectFields)
        groupBySet == {trim(groupByFields[k]) : k \in 1..Len(groupByFields)}
        Missing(f) == f \notin groupBySet
        missingFields == SelectSeq(nonAggregateFields, Missing)
    IN [isValid |-> Len(missingFields) = 0,
        missingFields |-> IF missingFields = <<>> THEN <<>> ELSE <<Head(missingFields)>>]

validateGroupByFields(selectFields, groupByFields) ==
    LET nonAggregateFields == extractNonAggregateFields(selectFields)
        groupBySet == {trim(groupByFields[k]) : k \in 1..Len(groupByFields)}
        Missing(f) == f \notin groupBySet
        missingFields == SelectSeq(nonAggregateFields, Missing)
    IN [isValid |-> Len(missingFields) = 0, missingFields |-> missingFields]

validateWhereClauseCaseSensitive(whereClause) ==
    LET hits == {k \in 1..Len(AGGREGATE_FUNCTIONS) :
                    includes(whereClause.v, AGGREGATE_FUNCTIONS[k] \o <<"(">>)}
    IN IF ~TruthyString(whereClause) THEN [isValid |-> TRUE]
       ELSE IF hits # {}
       THEN [isValid |-> FALSE,
             error |-> Error("WHERE clause cannot contain aggregate functions. Use HAVING clause instead for aggregate conditions like ${func}()",
                             <<AGGREGATE_FUNCTIONS[Min(hits)]>>)]
       ELSE [isValid |-> TRUE]

\* whereClause is an optional string
validateWhereClause(whereClause) ==
    LET hits == {k \in 1..Len(AGGREGATE_FUNCTIONS) :
                    includes(toUpperCase(whereClause.v), AGGREGATE_FUNCTIONS[k] \o <<"(">>)}
    IN IF ~TruthyString(whereClause) THEN [isValid |-> TRUE]
       ELSE IF hits # {}
       THEN [isValid |-> FALSE,
             error |-> Error("WHERE clause cannot contain aggregate functions. Use HAVING clause instead for aggregate conditions like ${func}()",
                             <<AGGREGATE_FUNCTIONS[Min(hits)]>>)]
       ELSE [isValid |-> TRUE]

\* part.trim().replace(/ (DESC|ASC)$/i, '').trim()
orderByField(part) ==
    LET p == trim(part)
        u == toUpperCase(p)
    IN IF endsWith(u, <<" ","D","E","S","C">>) THEN trim(SubSeq(p, 1, Len(p) - 5))
       ELSE IF endsWith(u, <<" ","A","S","C">>) THEN trim(SubSeq(p, 1, Len(p) - 4))
       ELSE p

\* orderBy is an optional string
validateOrderBy(orderBy, groupByFields, selectFields) ==
    LET parts == splitChar(orderBy.v, ",")
        orderByParts == [k \in 1..Len(parts) |-> orderByField(parts[k])]
        groupBySet == {groupByFields[k] : k \in 1..Len(groupByFields)}
        aggregates == SelectSeq(selectFields, isAggregateField)
        aggregateFields == {extractBaseField(aggregates[k]) : k \in 1..Len(aggregates)}
        bad == {k \in 1..Len(orderByParts) :
                   /\ orderByParts[k] \notin groupBySet
                   /\ orderByParts[k] \notin aggregateFields
                   /\ ~isAggregateField(orderByParts[k])}
    IN IF ~TruthyString(orderBy) THEN [isValid |-> TRUE]
       ELSE IF bad # {}
       THEN [isValid |-> FALSE,
             error |-> Error("ORDER BY field '${orderField}' must be in GROUP BY clause or be an aggregate function",
                             <<orderByParts[Min(bad)]>>)]
       ELSE [isValid |-> TRUE]

\* the catch block of handleAggregateQuery
catchAggregateQuery(err) ==
    IF MessageIncludes(err, <<"M","A","L","F","O","R","M","E","D","_","Q","U","E","R","Y">>) /\ MessageIncludes(err, <<"G","R","O","U","P"," ","B","Y">>)
    THEN ToolResult(TRUE, "Error executing aggregate query: Query error: ${errorMessage}\n\nCommon issues: ...",
                    err.values)
    ELSE ToolResult(TRUE, "Error executing aggregate query: " \o err.template, err.values)

handleAggregateQuerySyncNoOrderByCheck(a) ==
    LET groupByValidation == validateGroupByFields(a.selectFields, a.groupByFields)
        whereValidation == validateWhereClause(a.whereClause)
        soql == <<"S","E","L","E","C","T"," ">> \o join(a.selectFields, <<",", " ">>)
                \o <<" ","F","R","O","M"," ">> \o a.objectName
                \o (IF TruthyString(a.whereClause) THEN <<" ","W","H","E","R","E"," ">> \o a.whereClause.v ELSE <<>>)
                \o <<" ","G","R","O","U","P"," ","B","Y"," ">> \o join(a.groupByFields, <<",", " ">>)
                \o (IF TruthyString(a.havingClause) THEN <<" ","H","A","V","I","N","G"," ">> \o a.havingClause.v ELSE <<>>)
                \o (IF TruthyString(a.orderBy) THEN <<" ","O","R","D","E","R"," ","B","Y"," ">> \o a.orderBy.v ELSE <<>>)
                \o (IF TruthyNumber(a.limit) THEN <<" ","L","I","M","I","T"," ">> \o NumberToString(a.limit.v) ELSE <<>>)
    IN IF ~groupByValidation.isValid
       THEN ReturnNow(ToolResult(TRUE,
                "Error: The following non-aggregate fields must be included in GROUP BY clause: ${missingFields.join(', ')}\n\nAll fields in SELECT that are not aggregate functions (COUNT, SUM, AVG, etc.) must be included in GROUP BY.",
                <<join(groupByValidation.missingFields, <<",", " ">>)>>))
       ELSE IF ~whereValidation.isValid
       THEN ReturnNow([isError |-> TRUE, text |-> whereValidation.error])
       ELSE Submit(soql)

handleAggregateQuerySyncHavingFirst(a) ==
    LET groupByValidation == validateGroupByFields(a.selectFields, a.groupByFields)
        whereValidation == validateWhereClause(a.whereClause)
        orderByValidation == validateOrderBy(a.orderBy, a.groupByFields, a.selectFields)
        soql == <<"S","E","L","E","C","T"," ">> \o join(a.selectFields, <<",", " ">>)
                \o <<" ","F","R","O","M"," ">> \o a.objectName
                \o (IF TruthyString(a.whereClause) THEN <<" ","W","H","E","R","E"," ">> \o a.whereClause.v ELSE <<>>)
                \o (IF TruthyString(a.havingClause) THEN <<" ","H","A","V","I","N","G"," ">> \o a.havingClause.v ELSE <<>>)
                \o <<" ","G","R","O","U","P"," ","B","Y"," ">> \o join(a.groupByFields, <<",", " ">>)
                \o (IF TruthyString(a.orderBy) THEN <<" ","O","R","D","E","R"," ","B","Y"," ">> \o a.orderBy.v ELSE <<>>)
                \o (IF TruthyNumber(a.limit) THEN <<" ","L","I","M","I","T"," ">> \o NumberToString(a.limit.v) ELSE <<>>)
    IN IF ~groupByValidation.isValid
       THEN ReturnNow(ToolResult(TRUE,
                "Error: The following non-aggregate fields must be included in GROUP BY clause: ${missingFields.join(', ')}\n\nAll fields in SELECT that are not aggregate functions (COUNT, SUM, AVG, etc.) must be included in GROUP BY.",
                <<join(groupByValidation.missingFields, <<",", " ">>)>>))
       ELSE IF ~whereValidation.isValid
       THEN ReturnNow([isError |-> TRUE, text |-> whereValidation.error])
       ELSE IF ~orderByValidation.isValid
       THEN ReturnNow([isError |-> TRUE, text |-> orderByValidation.error])
       ELSE Submit(soql)

\* handleAggregateQuery up to and including the call of conn.query
handleAggregateQuerySync(a) ==
    LET groupByValidation == validateGroupByFields(a.selectFields, a.groupByFields)
        whereValidation == validateWhereClause(a.whereClause)
        orderByValidation == validateOrderBy(a.orderBy, a.groupByFields, a.selectFields)
        soql == <<"S","E","L","E","C","T"," ">> \o join(a.selectFields, <<",", " ">>)
                \o <<" ","F","R","O","M"," ">> \o a.objectName
                \o (IF TruthyString(a.whereClause) THEN <<" ","W","H","E","R","E"," ">> \o a.whereClause.v ELSE <<>>)
                \o <<" ","G","R","O","U","P"," ","B","Y"," ">> \o join(a.groupByFields, <<",", " ">>)
                \o (IF TruthyString(a.havingClause) THEN <<" ","H","A","V","I","N","G"," ">> \o a.havingClause.v ELSE <<>>)
                \o (IF TruthyString(a.orderBy) THEN <<" ","O","R","D","E","R"," ","B","Y"," ">> \o a.orderBy.v ELSE <<>>)
                \o (IF TruthyNumber(a.limit) THEN <<" ","L","I","M","I","T"," ">> \o NumberToString(a.limit.v) ELSE <<>>)
    IN IF ~groupByValidation.isValid
       THEN ReturnNow(ToolResult(TRUE,
                "Error: The following non-aggregate fields must be included in GROUP BY clause: ${missingFields.join(', ')}\n\nAll fields in SELECT that are not aggregate functions (COUNT, SUM, AVG, etc.) must be included in GROUP BY.",
                <<join(groupByValidation.missingFields, <<",", " ">>)>>))
       ELSE IF ~whereValidation.isValid
       THEN ReturnNow([isError |-> TRUE, text |-> whereValidation.error])
       ELSE IF ~orderByValidation.isValid
       THEN ReturnNow([isError |-> TRUE, text |-> orderByValidation.error])
       ELSE Submit(soql)

(***************************************************************************)
(* State machine                                                           *)
(***************************************************************************)
NoArgs == [none |-> TRUE]
NoResult == [none |-> TRUE]

Init ==
    /\ pc = "idle"
    /\ fn = "none"
    /\ args = NoArgs
    /\ result = NoResult
    /\ queries = <<>>

StringsUpTo(chars, n) == UNION {[1..k -> chars] : k \in 0..n}

(***************************************************************************)
(* The two tool handlers, called with arguments of any shape               *)
(***************************************************************************)
MaxFields == 2
MaxSelect == 2
MaxGroupBy == 2

\* one character more than MAX_WHERE_LENGTH
LongWhere == [i \in 1..(MAX_WHERE_LENGTH + 1) |-> "a"]

QueryFieldInputs == {
    <<"I","d">>,
    <<"A","c","c","o","u","n","t",".","N","a","m","e">>,
    <<"a",".","b",".","c",".","d",".","e">>,
    <<"a",".","b",".","c",".","d",".","e",".","f">>,
    <<"a",".",".","b">>,
    <<"C","O","U","N","T","(","I","d",")">>,
    <<"(","S","E","L","E","C","T"," ","I","d"," ","F","R","O","M"," ","C","o","n","t","a","c","t","s",")">>,
    <<"(","x"," ","S","E","L","E","C","T"," ","I","d"," ","F","R","O","M"," ","y",")">>,
    <<"(","S","E","L","E","C","T"," ","a",".","b",","," ","c",".","d",","," ","e",".","f",","," ","g",".","h",","," ","i",".","j"," ","F","R","O","M"," ","y",")">>}

QueryArgs(objectName, whereClause, orderBy, limit) ==
    [objectName |-> objectName, whereClause |-> whereClause, orderBy |-> orderBy, limit |-> limit]

\* objectName, whereClause, orderBy and limit of a handleQueryRecords call
QueryOptionInputs == {
    QueryArgs(<<"A","c","c","o","u","n","t">>, Undefined, Undefined, Undefined),
    QueryArgs(<<"M","y","_","_","c">>, Some(<<"N","a","m","e"," ","="," ",QUOTE,"x",QUOTE>>), Undefined, Undefined),
    QueryArgs(<<"A","c","c","o","u","n","t">>, Some(<<"a"," ","="," ","1"," ","O","R"," ","1","=","1">>), Undefined, Undefined),
    QueryArgs(<<"A","c","c","o","u","n","t">>, Some(<<"a"," ","="," ","1",";"," ","D","R","O","P">>), Undefined, Undefined),
    QueryArgs(<<"A","c","c","o","u","n","t">>, Some(LongWhere), Undefined, Undefined),
    QueryArgs(<<"A","c","c","o","u","n","t">>, Some(<<>>), Some(<<>>), Undefined),
    QueryArgs(<<"A","c","c","o","u","n","t">>, Undefined, Some(<<"N","a","m","e"," ","d","e","s","c",","," ","I","d">>), Undefined),
    QueryArgs(<<"A","c","c","o","u","n","t">>, Undefined, Some(<<"N","a","m","e",";"," ","x">>), Undefined),
    QueryArgs(<<"A","c","c","o","u","n","t">>, Undefined, Undefined, Some(NumberOf(10))),
    QueryArgs(<<"A","c","c","o","u","n","t">>, Undefined, Undefined, Some(Finite(0))),
    QueryArgs(<<"A","c","c","o","u","n","t">>, Undefined, Undefined, Some(Finite(Scale + 1))),
    QueryArgs(<<"A","c","c","o","u","n","t">>, Undefined, Undefined, Some(NumberOf(MAX_LIMIT + 1))),
    QueryArgs(<<"A","c","c","o","u","n","t">>, Some(<<"N","a","m","e"," ","="," ",QUOTE,"x",QUOTE>>), Some(<<" ","N","a","m","e"," ","D","E","S","C"," ">>), Some(NumberOf(MAX_LIMIT))),
    QueryArgs(<<"a",";","b">>, Undefined, Undefined, Undefined),
    QueryArgs(<<>>, Some(<<"a"," ","="," ","1"," ","O","R"," ","1","=","1">>), Some(<<"N","a","m","e",";"," ","x">>), Some(Finite(0)))}

QueryInputs ==
    {[objectName |-> o.objectName, fields |-> fs, whereClause |-> o.whereClause,
      orderBy |-> o.orderBy, limit |-> o.limit] :
        o \in QueryOptionInputs, fs \in StringsUpTo(QueryFieldInputs, MaxFields)}

SelectFieldInputs == {
    <<"S","t","a","g","e","N","a","m","e">>,
    <<"T","y","p","e"," ","t">>,
    <<"C","O","U","N","T","(","I","d",")"," ","C","n","t">>,
    <<"A","m","o","u","n","t"," ","C","O","U","N","T","(","I","d",")">>}

GroupByFieldInputs == {
    <<"S","t","a","g","e","N","a","m","e">>,
    <<"T","y","p","e">>,
    <<" ","S","t","a","g","e","N","a","m","e"," ">>}

AggregateArgs(objectName, whereClause, havingClause, orderBy, limit) ==
    [objectName |-> objectName, whereClause |-> whereClause, havingClause |-> havingClause,
     orderBy |-> orderBy, limit |-> limit]

\* objectName, whereClause, havingClause, orderBy and limit of a handleAggregateQuery call
AggregateOptionInputs == {
    AggregateArgs(<<"O","p","p","o","r","t","u","n","i","t","y">>, Undefined, Undefined, Undefined, Undefined),
    AggregateArgs(<<"O","p","p","o","r","t","u","n","i","t","y">>, Undefined, Undefined, Some(<<"C","O","U","N","T","(","I","d",")"," ","d","e","s","c",","," ","T","y","p","e">>), Undefined),
    AggregateArgs(<<"O","p","p","o","r","t","u","n","i","t","y">>, Undefined, Undefined, Some(<<"A","m","o","u","n","t">>), Undefined),
    AggregateArgs(<<"O","p","p","o","r","t","u","n","i","t","y">>, Undefined, Undefined, Undefined, Some(NumberOf(0 - 5))),
    AggregateArgs(<<"O","p","p","o","r","t","u","n","i","t","y">>, Some(<<"A","m","o","u","n","t"," ",">"," ","1">>), Some(<<"C","O","U","N","T","(","I","d",")"," ",">"," ","1">>), Some(<<"S","t","a","g","e","N","a","m","e"," ","D","E","S","C">>), Some(NumberOf(10))),
    AggregateArgs(<<"O","p","p","o","r","t","u","n","i","t","y">>, Some(<<"M","a","x","(","A","m","o","u","n","t",")"," ",">"," ","s","u","m","(","C","o","s","t",")">>), Undefined, Some(<<"A","m","o","u","n","t">>), Undefined),
    AggregateArgs(<<"O","p","p","o","r","t","u","n","i","t","y">>, Some(<<>>), Some(<<>>), Some(<<>>), Undefined),
    AggregateArgs(<<"O","p","p","o","r","t","u","n","i","t","y">>, Undefined, Undefined, Some(<<"F","o","o"," ","a","s","c",","," ","A","m","o","u","n","t">>), Undefined),
    AggregateArgs(<<"a",";","b">>, Undefined, Undefined, Undefined, Undefined)}

AggregateInputs ==
    {[objectName |-> o.objectName, selectFields |-> ss, groupByFields |-> gs,
      whereClause |-> o.whereClause, havingClause |-> o.havingClause,
      orderBy |-> o.orderBy, limit |-> o.limit] :
        o \in AggregateOptionInputs,
        ss \in StringsUpTo(SelectFieldInputs, MaxSelect),
        gs \in StringsUpTo(GroupByFieldInputs, MaxGroupBy)}

\* what conn.query may resolve to, and the messages it may reject with
MaxRows == 1
RowInputs == StringsUpTo(RowKinds, MaxRows)
ExceptionInputs == {
    <<"I","N","V","A","L","I","D","_","F","I","E","L","D",":"," ","N","o"," ","s","u","c","h"," ","c","o","l","u","m","n"," ",QUOTE,"A","c","c","o","u","n","t",".","F","o","o",QUOTE>>,
    <<"I","N","V","A","L","I","D","_","F","I","E","L","D",":"," ","N","o"," ","s","u","c","h"," ","c","o","l","u","m","n"," ",QUOTE,"F","o","o",QUOTE>>,
    <<"M","A","L","F","O","R","M","E","D","_","Q","U","E","R","Y",":"," ","G","R","O","U","P"," ","B","Y">>}

\* the synchronous part of a handler ran: it returned, or it called conn.query
Dispatch(name, a, out) ==
    /\ fn' = name
    /\ args' = a
    /\ IF out.submit
       THEN /\ pc' = "querying"
            /\ queries' = Append(queries, out.soql)
            /\ result' = NoResult
       ELSE /\ pc' = "done"
            /\ queries' = queries
            /\ result' = out.result

CallHandleQueryRecords(a) ==
    /\ pc = "idle"
    /\ Dispatch("handleQueryRecords", a, handleQueryRecordsSync(a))

CallHandleAggregateQuery(a) ==
    /\ pc = "idle"
    /\ Dispatch("handleAggregateQuery", a, handleAggregateQuerySync(a))

\* conn.query resolves: the handler formats the records and returns
QueryReturns(rows) ==
    /\ pc = "querying"
    /\ pc' = "done"
    /\ result' =
          IF fn = "handleQueryRecords"
          THEN IF formatQueryRecordsThrows(args.fields, rows)
               THEN catchQueryRecords(Error("Cannot read properties of undefined", <<>>))
               ELSE ToolResult(FALSE, "Query returned ${result.records.length} records:\n\n${formattedRecords}",
                               <<NatToString(Len(rows))>>)
          ELSE ToolResult(FALSE, "Aggregate query returned ${result.records.length} grouped results:\n\n${formattedRecords}",
                          <<NatToString(Len(rows))>>)
    /\ UNCHANGED <<fn, args, queries>>

\* conn.query rejects: the catch block of the handler returns
QueryThrows(message) ==
    /\ pc = "querying"
    /\ pc' = "done"
    /\ result' =
          IF fn = "handleQueryRecords"
          THEN catchQueryRecords(Error("${message}", <<message>>))
          ELSE catchAggregateQuery(Error("${message}", <<message>>))
    /\ UNCHANGED <<fn, args, queries>>

Next ==
    \/ pc = "idle" /\ \E a \in QueryInputs : CallHandleQueryRecords(a)
    \/ pc = "idle" /\ \E a \in AggregateInputs : CallHandleAggregateQuery(a)
    \/ \E rows \in RowInputs : QueryReturns(rows)
    \/ \E message \in ExceptionInputs : QueryThrows(message)

Spec == Init /\ [][Next]_vars

(***************************************************************************)
(* Properties of the handlers                                              *)
(***************************************************************************)
IsHandler == fn \in {"handleQueryRecords", "handleAggregateQuery"}
SelectList == IF fn = "handleQueryRecords" THEN args.fields ELSE args.selectFields

\* C1: every query text that reaches conn.query has an object name that
\* validateObjectName accepts and a select list whose every entry
\* validateFieldName accepts.
C1_AllInputsSanitized ==
    (IsHandler /\ queries # <<>>) =>
        /\ validateObjectName(args.objectName).ok
        /\ \A k \in 1..Len(SelectList) : validateFieldName(SelectList[k]).ok

\* the part of C1 that is about handleQueryRecords alone
C1_QueryRecordsSanitized ==
    (fn = "handleQueryRecords" /\ queries # <<>>) =>
        /\ validateObjectName(args.objectName).ok
        /\ \A k \in 1..Len(args.fields) : validateFieldName(args.fields[k]).ok

\* some validation step of handleQueryRecords fails on these arguments
QueryStepFails(a) ==
    \/ ~validateObjectName(a.objectName).ok
    \/ \E k \in 1..Len(a.fields) : ~validateFieldName(a.fields[k]).ok
    \/ \E k \in 1..Len(a.fields) : ~validateRelationshipField(a.fields[k]).isValid
    \/ TruthyString(a.whereClause) /\ Len(a.whereClause.v) > MAX_WHERE_LENGTH
    \/ TruthyString(a.whereClause) /\ ~sanitizeWhereClause(a.whereClause.v).ok
    \/ TruthyString(a.orderBy) /\ ~RegexTest(orderByPattern, trim(a.orderBy.v))
    \/ a.limit.defined /\ ~validateLimit(a.limit.v).ok

\* some validation step of handleAggregateQuery fails on these arguments
AggregateStepFails(a) ==
    \/ ~validateGroupByFields(a.selectFields, a.groupByFields).isValid
    \/ ~validateWhereClause(a.whereClause).isValid
    \/ ~validateOrderBy(a.orderBy, a.groupByFields, a.selectFields).isValid

StepFails ==
    IF fn = "handleQueryRecords" THEN QueryStepFails(args) ELSE AggregateStepFails(args)

\* C4: when a validation step of the handler fails, conn.query is called zero
\* times in that call and the result has isError = true; conn.query is called at
\* most once per call, and only when every validation step of the handler passed.
C4_ValidationPrecedesNetwork ==
    IsHandler =>
        /\ Len(queries) <= 1
        /\ StepFails => (queries = <<>> /\ pc = "done" /\ result.isError)
        /\ queries # <<>> => ~StepFails

\* the last step of handleQueryRecords (LIMIT) fails after all others passed
C4_Witness ==
    /\ fn = "handleQueryRecords"
    /\ pc = "done"
    /\ args.objectName = <<"A","c","c","o","u","n","t">>
    /\ args.fields = <<<<"I","d">>, <<"A","c","c","o","u","n","t",".","N","a","m","e">>>>
    /\ args.limit = Some(NumberOf(MAX_LIMIT + 1))
    /\ queries = <<>>
    /\ result.isError

C4_WitnessAggregate ==
    /\ fn = "handleAggregateQuery"
    /\ pc = "done"
    /\ args.orderBy = Some(<<"A","m","o","u","n","t">>)
    /\ ~args.whereClause.defined
    /\ validateGroupByFields(args.selectFields, args.groupByFields).isValid
    /\ queries = <<>>
    /\ result.isError

\* the first whitespace-delimited token of a select entry (its alias stripped)
RECURSIVE TokenPrefix(_)
TokenPrefix(s) ==
    IF s = <<>> \/ Head(s) \in WhiteSpace THEN <<>> ELSE <<Head(s)>> \o TokenPrefix(Tail(s))
BaseField(entry) == TokenPrefix(trimStart(entry))

CallAt(upper, i) ==
    \E k \in 1..Len(AGGREGATE_FUNCTIONS) :
        startsWithAt(upper, AGGREGATE_FUNCTIONS[k] \o <<"(">>, i)

CallIn(upper) == \E i \in 1..Len(upper) : CallAt(upper, i)

IsAggregateCall(entry) == CallIn(toUpperCase(entry))

NoOptions(a) ==
    /\ ~a.whereClause.defined /\ ~a.havingClause.defined
    /\ ~a.orderBy.defined /\ ~a.limit.defined

IndexPermutations(n) == {p \in [1..n -> 1..n] : \A i, j \in 1..n : p[i] = p[j] => i = j}
Permuted(xs, p) == [i \in 1..Len(xs) |-> xs[p[i]]]

\* the build of the query has ended: the query is with conn.query, or the
\* handler returned without one
BuildEnded == pc = "querying" \/ (pc = "done" /\ queries = <<>>)

\* the handler gives the same outcome (query or error) for every order of the two lists
OrderIndependent(a) ==
    \A p \in IndexPermutations(Len(a.selectFields)), q \in IndexPermutations(Len(a.groupByFields)) :
        handleAggregateQuerySync([a EXCEPT !.selectFields = Permuted(a.selectFields, p),
                                           !.groupByFields = Permuted(a.groupByFields, q)]).submit
            = (queries # <<>>)

GroupByErrorTemplate ==
    "Error: The following non-aggregate fields must be included in GROUP BY clause: ${missingFields.join(', ')}\n\nAll fields in SELECT that are not aggregate functions (COUNT, SUM, AVG, etc.) must be included in GROUP BY."

GroupByCheckFailed ==
    /\ fn = "handleAggregateQuery"
    /\ pc = "done"
    /\ queries = <<>>
    /\ result.text.template = GroupByErrorTemplate

\* the items of a list written with ', ' between them
RECURSIVE Items(_)
Items(text) ==
    IF \A i \in 1..Len(text) : ~startsWithAt(text, <<",", " ">>, i) THEN <<text>>
    ELSE LET k == CHOOSE i \in 1..Len(text) :
                      /\ startsWithAt(text, <<",", " ">>, i)
                      /\ \A j \in 1..(i - 1) : ~startsWithAt(text, <<",", " ">>, j)
         IN <<SubSeq(text, 1, k - 1)>> \o Items(SubSeq(text, k + 2, Len(text)))

NamedFields == Range(Items(result.text.values[1]))

C6_WitnessTwo ==
    /\ GroupByCheckFailed
    /\ args.selectFields = <<<<"T","y","p","e"," ","t">>, <<"S","t","a","g","e","N","a","m","e">>>>
    /\ args.groupByFields = <<>>
    /\ result.text.values = <<<<"T","y","p","e",","," ","S","t","a","g","e","N","a","m","e">>>>

\* the decimal text of a supplied limit, as it would follow the LIMIT keyword
LimitText(a) == <<" ","L","I","M","I","T"," ">> \o NumberToString(a.limit.v)

LimitInRange(x) ==
    /\ x.kind = "finite"
    /\ x.k % Scale = 0
    /\ 1 <= x.k \div Scale
    /\ x.k \div Scale <= 50000

\* C11: in a handler call with a limit supplied, either the call returns an
\* error without querying, or the query handed to conn.query ends with LIMIT n,
\* n being the supplied limit, an integer with 1 <= n <= 50000.
C11_NoOutOfRangeLimit ==
    (IsHandler /\ args.limit.defined /\ BuildEnded) =>
        \/ pc = "done" /\ queries = <<>> /\ result.isError
        \/ /\ queries # <<>>
           /\ LimitInRange(args.limit.v)
           /\ endsWith(queries[1], LimitText(args))

\* the part of C11 that is about handleQueryRecords alone
C11_QueryRecordsLimit ==
    (fn = "handleQueryRecords" /\ args.limit.defined /\ BuildEnded) =>
        \/ pc = "done" /\ queries = <<>> /\ result.isError
        \/ /\ queries # <<>>
           /\ LimitInRange(args.limit.v)
           /\ endsWith(queries[1], LimitText(args))

C11_QueryRecordsWitness ==
    /\ fn = "handleQueryRecords"
    /\ args.limit = Some(NumberOf(MAX_LIMIT))
    /\ queries # <<>>
    /\ endsWith(queries[1], <<" ","L","I","M","I","T"," ","5","0","0","0","0">>)

\* ---- escapeSoqlString called on its own ----
MaxEscLen == 4
EscChars == {"a", "n", QUOTE, BS, NL, CR, TAB}
EscInputs == StringsUpTo(EscChars, MaxEscLen)

CallEscapeSoqlString(s) ==
    /\ pc = "idle"
    /\ pc' = "done"
    /\ fn' = "escapeSoqlString"
    /\ args' = [value |-> s]
    /\ result' = Returned(escapeSoqlString(s))
    /\ UNCHANGED queries

\* a second call with the same argument, after the first has returned
RepeatEscapeSoqlString ==
    /\ pc = "done"
    /\ fn = "escapeSoqlString"
    /\ pc' = "done"
    /\ fn' = "escapeSoqlString#2"
    /\ result' = [ok |-> TRUE, value |-> result.value,
                   again |-> escapeSoqlString(args.value)]
    /\ UNCHANGED <<args, queries>>

NextEscape ==
    \/ pc = "idle" /\ \E s \in EscInputs : CallEscapeSoqlString(s)
    \/ RepeatEscapeSoqlString

SpecEscape == Init /\ [][NextEscape]_vars

EscapeReturned == fn \in {"escapeSoqlString", "escapeSoqlString#2"}

\* the number of consecutive backslashes that end right before position i
RECURSIVE BackslashesBefore(_, _)
BackslashesBefore(o, i) ==
    IF i > 1 /\ o[i - 1] = BS THEN 1 + BackslashesBefore(o, i - 1) ELSE 0

NoRawControl(o) == \A i \in 1..Len(o) : o[i] \notin {NL, CR, TAB}

QuotesEscaped(o) ==
    \A i \in 1..Len(o) : o[i] = QUOTE => BackslashesBefore(o, i) % 2 = 1

\* j + 1 is the position right after a maximal run of backslashes
BackslashRunsClosed(o) ==
    \A j \in 1..Len(o) :
        (/\ o[j] = BS
         /\ (j = Len(o) \/ o[j + 1] \notin {BS, QUOTE, "n", "r", "t"}))
        => BackslashesBefore(o, j + 1) % 2 = 0

RECURSIVE unescapeSoqlString(_)
unescapeSoqlString(o) ==
    IF o = <<>> THEN <<>>
    ELSE IF Head(o) # BS THEN <<Head(o)>> \o unescapeSoqlString(Tail(o))
    ELSE IF Len(o) < 2 THEN <<"dangling">>
    ELSE LET c == o[2]
             d == CASE c = BS -> BS
                    [] c = QUOTE -> QUOTE
                    [] c = "n" -> NL
                    [] c = "r" -> CR
                    [] c = "t" -> TAB
                    [] OTHER -> "unknown"
         IN <<d>> \o unescapeSoqlString(SubSeq(o, 3, Len(o)))

IdentFrags == {
    <<"I","d">>,
    <<"a">>,
    <<"1">>,
    <<"_">>,
    <<".">>,
    <<" ">>,
    <<";">>,
    <<")">>,
    <<"(">>,
    <<QUOTE>>,
    <<"_","_","c">>,
    <<"C","O","U","N","T","(","I","d",")">>,
    <<"m","a","x","(">>,
    <<"(","S","E","L","E","C","T"," ","I","d"," ","F","R","O","M"," ","I","d">>}
MaxIdentFrags == 3
IdentInputs == {Flatten(fs) : fs \in StringsUpTo(IdentFrags, MaxIdentFrags)}

CallValidateObjectName(s) ==
    /\ pc = "idle"
    /\ pc' = "done"
    /\ fn' = "validateObjectName"
    /\ args' = [name |-> s]
    /\ result' = validateObjectName(s)
    /\ UNCHANGED queries

CallValidateFieldName(s) ==
    /\ pc = "idle"
    /\ pc' = "done"
    /\ fn' = "validateFieldName"
    /\ args' = [name |-> s]
    /\ result' = validateFieldName(s)
    /\ UNCHANGED queries

NextIdent ==
    \/ pc = "idle" /\ \E s \in IdentInputs : CallValidateObjectName(s)
    \/ pc = "idle" /\ \E s \in IdentInputs : CallValidateFieldName(s)

SpecIdent == Init /\ [][NextIdent]_vars

\* a letter or underscore followed by letters, digits or underscores
IsSimpleIdentifier(s) ==
    /\ Len(s) >= 1
    /\ s[1] \in Letters \cup {"_"}
    /\ \A i \in 2..Len(s) : s[i] \in Letters \cup Digits \cup {"_"}

\* C7: validateObjectName returns its argument unchanged exactly for a letter or
\* underscore followed by letters, digits or underscores; every other string
\* (the empty one, one with whitespace, dot, quote, semicolon or parenthesis)
\* fails with the invalid-object-name error.
C7_ObjectNameGrammar ==
    fn = "validateObjectName" =>
        /\ result.ok <=> IsSimpleIdentifier(args.name)
        /\ result.ok => result.value = args.name
        /\ ~result.ok => /\ result.error.template = "Invalid object name: ${objectName}. Object names must contain only alphanumeric characters and underscores."
                         /\ result.error.values = <<args.name>>
        /\ (args.name = <<>> \/ Range(args.name) \cap (WhiteSpace \cup {".", QUOTE, ";", "(", ")"}) # {})
               => ~result.ok

C7_Witness ==
    /\ fn = "validateObjectName"
    /\ args.name = <<"I","d","_","_","c">>
    /\ result.ok

C7_WitnessRejected ==
    /\ fn = "validateObjectName"
    /\ args.name = <<"I","d",";","a">>
    /\ ~result.ok

\* C8: validateFieldName and validateObjectName fail for every input that holds
\* a semicolon, whatever accepted shape the input otherwise resembles.
C8_SemicolonRejected ==
    (fn \in {"validateObjectName", "validateFieldName"} /\ ";" \in Range(args.name))
        => ~result.ok

\* the part of C8 that is about validateObjectName alone
C8_ObjectNameSemicolonRejected ==
    (fn = "validateObjectName" /\ ";" \in Range(args.name)) => ~result.ok

\* t is F(path) with an optional alias, F compared case-insensitively
IsStrictCall(func, t) ==
    LET n == Len(func)
    IN \E p \in (n + 3)..Len(t) :
        /\ toUpperCase(SubSeq(t, 1, n)) = func
        /\ t[n + 1] = "("
        /\ \A i \in (n + 2)..(p - 1) : t[i] \in WordChars \cup {"."}
        /\ t[p] = ")"
        /\ \/ p = Len(t)
           \/ \E q \in (p + 1)..(Len(t) - 1) :
                /\ \A i \in (p + 1)..q : t[i] \in WhiteSpace
                /\ \A i \in (q + 1)..Len(t) : t[i] \in WordChars

\* identifiers joined by single dots
IsDottedPath(s) ==
    LET segs == splitChar(s, ".")
    IN \A k \in 1..Len(segs) : IsSimpleIdentifier(segs[k])

FieldFunctions == aggregateFunctions \o dateTimeFunctions
ContainsCall(s, k) == includes(toUpperCase(s), FieldFunctions[k] \o <<"(">>)
FirstCall(s) == Min({k \in 1..Len(FieldFunctions) : ContainsCall(s, k)})
ContainsAnyCall(s) == \E k \in 1..Len(FieldFunctions) : ContainsCall(s, k)

FieldCase1(s) == ContainsAnyCall(s) /\ IsStrictCall(FieldFunctions[FirstCall(s)], trim(s))
FieldCase2(s) ==
    /\ ~ContainsAnyCall(s)
    /\ trim(s) # <<>> /\ Head(trim(s)) = "(" /\ trim(s)[Len(trim(s))] = ")"
    /\ includes(s, kwSELECT) /\ includes(s, kwFROM)
FieldCase3(s) ==
    /\ ~ContainsAnyCall(s)
    /\ ~(trim(s) # <<>> /\ Head(trim(s)) = "(" /\ trim(s)[Len(trim(s))] = ")")
    /\ IsDottedPath(s)

\* C9: validateFieldName returns its input unchanged exactly when (1) some F(
\* of the vocabulary occurs in the upper-cased input and the trimmed input is a
\* strict call of the first such F, or (2) no F( occurs and the trimmed input is
\* parenthesised and holds SELECT and FROM, or (3) neither pre-filter applies
\* and the input is a dotted identifier path; an input with F( that is no strict
\* call fails with the function-syntax error even when it is subquery-shaped.
C9_FieldNamePriority ==
    fn = "validateFieldName" =>
        LET s == args.name
        IN /\ result.ok <=> (FieldCase1(s) \/ FieldCase2(s) \/ FieldCase3(s))
           /\ result.ok => result.value = s
           /\ (ContainsAnyCall(s) /\ ~IsStrictCall(FieldFunctions[FirstCall(s)], trim(s)))
                 => /\ ~result.ok
                    /\ result.error.template = "Invalid ${func} function syntax: ${fieldName}"
                    /\ result.error.values = <<FieldFunctions[FirstCall(s)], s>>

\* a subquery-shaped input that holds a malformed call of MAX
C9_Witness ==
    /\ fn = "validateFieldName"
    /\ ContainsAnyCall(args.name)
    /\ Head(args.name) = "(" /\ args.name[Len(args.name)] = ")"
    /\ includes(args.name, kwSELECT) /\ includes(args.name, kwFROM)
    /\ ~result.ok

C9_WitnessCall ==
    /\ fn = "validateFieldName"
    /\ args.name = <<"C","O","U","N","T","(","I","d",")"," ","a">>
    /\ result.ok

\* ---- validateLimit called on its own ----
\* the numbers within LimitSpread of 0 and of MAX_LIMIT, and the non-finite ones
LimitSpread == 7
LimitInputs ==
    NonFinite
    \cup {Finite(k) : k \in (0 - LimitSpread * Scale)..(LimitSpread * Scale)}
    \cup {Finite(MAX_LIMIT * Scale + k) : k \in (0 - LimitSpread * Scale)..(LimitSpread * Scale)}

CallValidateLimit(x) ==
    /\ pc = "idle"
    /\ pc' = "done"
    /\ fn' = "validateLimit"
    /\ args' = [limit |-> x]
    /\ result' = validateLimit(x)
    /\ UNCHANGED queries

\* a second call with the same argument, after the first has returned
RepeatValidateLimit ==
    /\ pc = "done"
    /\ fn = "validateLimit"
    /\ pc' = "done"
    /\ fn' = "validateLimit#2"
    /\ result' = validateLimit(args.limit)
    /\ UNCHANGED <<args, queries>>

NextLimit ==
    \/ pc = "idle" /\ \E x \in LimitInputs : CallValidateLimit(x)
    \/ RepeatValidateLimit

SpecLimit == Init /\ [][NextLimit]_vars

\* C10: validateLimit(n) returns n exactly when n is an integer with
\* 1 <= n <= 50000; 0, every negative value, every non-integer and every
\* n >= 50001 fail with the LIMIT error.
C10_LimitBoundary ==
    fn \in {"validateLimit", "validateLimit#2"} =>
        LET x == args.limit
            inRange == /\ x.kind = "finite"
                       /\ \E n \in 1..50000 : x.k = n * Scale
        IN /\ result.ok <=> inRange
           /\ result.ok => result.value = x
           /\ ~result.ok => result.error.template \in
                  {"LIMIT must be a positive integer", "LIMIT cannot exceed 50000"}
           /\ (x.kind = "finite" /\ x.k <= 0) => ~result.ok
           /\ (x.kind = "finite" /\ x.k % Scale # 0) => ~result.ok
           /\ (x.kind = "finite" /\ x.k >= 50001 * Scale) => ~result.ok

C10_Witness ==
    /\ fn = "validateLimit"
    /\ args.limit = Finite(50000 * Scale)
    /\ result = Returned(Finite(50000 * Scale))

C10_WitnessAbove ==
    /\ fn = "validateLimit"
    /\ args.limit = Finite(50001 * Scale)
    /\ ~result.ok

\* ---- buildSafeWhereClause, buildSafeOrderBy, buildSafeQuery called on their own ----
MaxElements == 2
MaxConditions == 2
MaxOrderBy == 2
MaxQueryFields == 2

Condition(field, operator, value) == [field |-> field, operator |-> operator, value |-> value]

ElementInputs == {JsString(<<"O",QUOTE,"B">>), JsNumber(NumberOf(5)), JsNull}

DateInputs == {JsDate(0, 0), JsDate(0 - 1, MsPerDay - 1), JsDate(11016, 45296789), JsInvalidDate}

ValueInputs ==
    {JsNull, JsUndefined, JsString(<<>>), JsString(<<"O",QUOTE,"B","r","i","e","n">>), JsString(<<"a", BS>>),
     JsNumber(NumberOf(42)), JsNumber(Finite(0 - 3)), JsNumber(Finite(0)), JsNumber(NaN),
     JsNumber(PosInfinity), JsBoolean(TRUE), JsBoolean(FALSE),
     JsArray(<<JsBoolean(TRUE)>>), JsArray(<<JsArray(<<>>)>>),
     JsOther(<<"o","b","j","e","c","t">>), JsOther(<<"f","u","n","c","t","i","o","n">>)}
    \cup DateInputs
    \cup {JsArray(xs) : xs \in StringsUpTo(ElementInputs, MaxElements)}

OperatorInputs == {<<"=">>, <<"<",">">>, <<"l","i","k","e">>, <<"i","n">>, <<"N","o","t"," ","I","n">>, <<"i","n","c","l","u","d","e","s">>, <<"E","X","C","L","U","D","E","S">>, <<"M","A","Y","B","E">>, <<"="," ">>}

ConditionInputs ==
    {Condition(f, o, v) : f \in {<<"N","a","m","e">>, <<"a",";","b">>}, o \in OperatorInputs, v \in ValueInputs}

\* the conditions that lists of several conditions are made of
ListedConditions ==
    {Condition(<<"N","a","m","e">>, <<"l","i","k","e">>, JsString(<<"A","%">>)),
     Condition(<<"I","d">>, <<"i","n">>, JsArray(<<JsString(<<"a">>), JsString(<<"b">>)>>)),
     Condition(<<"A","m","o","u","n","t">>, <<">","=">>, JsNumber(NumberOf(5))),
     Condition(<<"N","a","m","e">>, <<"M","A","Y","B","E">>, JsNull)}

WhereInputs ==
    {<<c>> : c \in ConditionInputs} \cup StringsUpTo(ListedConditions, MaxConditions)

OrderByEntry(field, direction) == [field |-> field, direction |-> direction]

OrderByEntryInputs ==
    {OrderByEntry(f, d) :
        f \in {<<"N","a","m","e">>, <<"C","r","e","a","t","e","d","D","a","t","e">>, <<"a",";","b">>},
        d \in {Undefined, Some(<<>>), Some(<<"A","S","C">>), Some(<<"D","E","S","C">>), Some(<<"a","s","c">>), Some(<<"D","E","S","C"," ","N","U","L","L","S"," ","L","A","S","T">>)}}

AllowedFieldsInputs ==
    {Undefined, Some(<<>>), Some(<<<<"N","a","m","e">>>>), Some(<<<<"C","r","e","a","t","e","d","D","a","t","e"," ","D","E","S","C">>, <<"I","d">>>>),
     Some(<<<<"N","a","m","e","s">>, <<"N","a","m","e","_","x"," ","D","E","S","C">>>>), Some(<<<<" ","N","a","m","e">>, <<"N","A","M","E">>>>),
     Some(<<<<"N","a","m","e"," ","N","U","L","L","S">>>>)}

OrderByInputs == StringsUpTo(OrderByEntryInputs, MaxOrderBy)

QueryParams(object, fields, where, orderBy, limit) ==
    [object |-> object, fields |-> fields, where |-> where, orderBy |-> orderBy, limit |-> limit]

QueryParamsInputs ==
    {QueryParams(o, fs, w, ob, l) :
        o \in {<<"A","c","c","o","u","n","t">>, <<"a",";","b">>},
        fs \in StringsUpTo({<<"I","d">>, <<"A","c","c","o","u","n","t",".","N","a","m","e">>, <<"a"," ","b">>}, MaxQueryFields),
        w \in {Undefined, Some(<<>>),
               Some(<<Condition(<<"N","a","m","e">>, <<"=">>, JsString(<<"x">>))>>),
               Some(<<Condition(<<"N","a","m","e">>, <<"l","i","k","e">>, JsString(<<"A","%">>)), Condition(<<"A","m","o","u","n","t">>, <<">">>, JsNumber(NumberOf(5)))>>),
               Some(<<Condition(<<"N","a","m","e">>, <<"M","A","Y","B","E">>, JsNull)>>)},
        ob \in {Undefined, Some(<<>>),
                Some(<<OrderByEntry(<<"N","a","m","e">>, Undefined), OrderByEntry(<<"I","d">>, Some(<<"D","E","S","C">>))>>),
                Some(<<OrderByEntry(<<"N","a","m","e">>, Some(<<"d","o","w","n">>))>>)},
        l \in {Undefined, Some(NumberOf(10)), Some(Finite(0)), Some(NumberOf(MAX_LIMIT + 1))}}

CallBuildSafeWhereClause(conditions) ==
    /\ pc = "idle"
    /\ pc' = "done"
    /\ fn' = "buildSafeWhereClause"
    /\ args' = [conditions |-> conditions]
    /\ result' = buildSafeWhereClause(conditions)
    /\ UNCHANGED queries

CallBuildSafeOrderBy(orderByFields, allowedFields) ==
    /\ pc = "idle"
    /\ pc' = "done"
    /\ fn' = "buildSafeOrderBy"
    /\ args' = [orderByFields |-> orderByFields, allowedFields |-> allowedFields]
    /\ result' = buildSafeOrderBy(orderByFields, allowedFields)
    /\ UNCHANGED queries

CallBuildSafeQuery(params) ==
    /\ pc = "idle"
    /\ pc' = "done"
    /\ fn' = "buildSafeQuery"
    /\ args' = params
    /\ result' = buildSafeQuery(params)
    /\ UNCHANGED queries

NextBuild ==
    \/ pc = "idle" /\ \E cs \in WhereInputs : CallBuildSafeWhereClause(cs)
    \/ pc = "idle" /\ \E os \in OrderByInputs, al \in AllowedFieldsInputs : CallBuildSafeOrderBy(os, al)
    \/ pc = "idle" /\ \E ps \in QueryParamsInputs : CallBuildSafeQuery(ps)

SpecBuild == Init /\ [][NextBuild]_vars

\* buildSafeWhereClause was called with one condition
SingleCondition == fn = "buildSafeWhereClause" /\ pc = "done" /\ Len(args.conditions) = 1
TheCondition == args.conditions[1]

AllowedOperators ==
    {<<"=">>, <<"!","=">>, <<"<",">">>, <<"<">>, <<">">>, <<"<","=">>, <<">","=">>, <<"L","I","K","E">>, <<"I","N">>, <<"N","O","T"," ","I","N">>, <<"I","N","C","L","U","D","E","S">>, <<"E","X","C","L","U","D","E","S">>}
SetOperators == {<<"I","N">>, <<"N","O","T"," ","I","N">>, <<"I","N","C","L","U","D","E","S">>, <<"E","X","C","L","U","D","E","S">>}

\* the field and the operator of the condition pass, so that its value decides
FieldAndOperatorPass(c) ==
    validateFieldName(c.field).ok /\ toUpperCase(c.operator) \in AllowedOperators

ClausePrefix(c) == c.field \o <<" ">> \o toUpperCase(c.operator) \o <<" ">>
EmitsValue(text) == result.ok /\ result.value = ClausePrefix(TheCondition) \o text
EmittedValue == SubSeq(result.value, Len(ClausePrefix(TheCondition)) + 1, Len(result.value))
FailsWith(template) == ~result.ok /\ result.error.template = template

DigitValue(ch) == CHOOSE n \in 0..9 : DigitSeq[n + 1] = ch
IsDigits(s) == Len(s) >= 1 /\ \A i \in 1..Len(s) : s[i] \in Digits

RECURSIVE DigitsValue(_)
DigitsValue(s) ==
    IF s = <<>> THEN 0 ELSE DigitsValue(SubSeq(s, 1, Len(s) - 1)) * 10 + DigitValue(s[Len(s)])

RECURSIVE TenTo(_)
TenTo(n) == IF n = 0 THEN 1 ELSE 10 * TenTo(n - 1)

\* text is an unsigned decimal numeral, digits with an optional fraction, of a / Scale
IsUnsignedDecimalOf(text, a) ==
    \/ IsDigits(text) /\ DigitsValue(text) * Scale = a
    \/ \E p \in 2..(Len(text) - 1) :
          LET int == SubSeq(text, 1, p - 1)
              frac == SubSeq(text, p + 1, Len(text))
          IN /\ text[p] = "."
             /\ IsDigits(int) /\ IsDigits(frac)
             /\ (DigitsValue(int) * TenTo(Len(frac)) + DigitsValue(frac)) * Scale
                    = a * TenTo(Len(frac))

\* text is the decimal numeral of the number x
IsDecimalOf(text, x) ==
    /\ x.kind = "finite"
    /\ IF x.k < 0
       THEN Len(text) >= 2 /\ Head(text) = "-" /\ IsUnsignedDecimalOf(Tail(text), 0 - x.k)
       ELSE IsUnsignedDecimalOf(text, x.k)

\* the day number of a calendar date of the proleptic Gregorian calendar
DaysFromCivil(year, month, day) ==
    LET y == IF month <= 2 THEN year - 1 ELSE year
        era == y \div 400
        yoe == y - era * 400
        doy == ((153 * (IF month > 2 THEN month - 3 ELSE month + 9) + 2) \div 5) + day - 1
        doe == yoe * 365 + (yoe \div 4) - (yoe \div 100) + doy
    IN era * 146097 + doe - 719468

\* text is YYYY-MM-DDTHH:mm:ss.sssZ and denotes the time value of the Date d
IsIsoOf(text, d) ==
    /\ d.valid
    /\ Len(text) = 24
    /\ <<text[5], text[8], text[11], text[14], text[17], text[20], text[24]>>
          = <<"-", "-", "T", ":", ":", ".", "Z">>
    /\ \A i \in (1..23) \ {5, 8, 11, 14, 17, 20} : text[i] \in Digits
    /\ LET num(a, b) == DigitsValue(SubSeq(text, a, b))
       IN /\ num(6, 7) \in 1..12 /\ num(9, 10) \in 1..31
          /\ num(12, 13) < 24 /\ num(15, 16) < 60 /\ num(18, 19) < 60
          /\ DaysFromCivil(num(1, 4), num(6, 7), num(9, 10)) = d.day
          /\ ((num(12, 13) * 60 + num(15, 16)) * 60 + num(18, 19)) * 1000 + num(21, 23) = d.ms

IsStringOrNumber(v) == v.type \in {"string", "number"}

\* what the same value gives when it is the value of a condition by itself
SerializedAlone(v) == serializeValue(Condition(<<"x">>, <<"=">>, v)).value

\* the elements serialized one by one, joined as (e1, e2, ...)
ArrayText(items) ==
    <<"(">> \o join([i \in 1..Len(items) |-> SerializedAlone(items[i])], <<",", " ">>) \o <<")">>

\* C12: a condition's value is serialized by its type: null as NULL, a string as
\* the quoted escapeSoqlString result, a number as its unquoted decimal numeral,
\* a boolean as TRUE or FALSE, a Date as its unquoted ISO-8601 string, an array
\* of strings and numbers as (e1, e2, ...); undefined and any other type fail.
C12_ValuesSerializedByType ==
    (SingleCondition /\ FieldAndOperatorPass(TheCondition)) =>
        LET v == TheCondition.value
        IN CASE v.type = "null" -> EmitsValue(<<"N","U","L","L">>)
             [] v.type = "string" -> EmitsValue(Quoted(escapeSoqlString(v.str)))
             [] v.type = "number" -> result.ok /\ IsDecimalOf(EmittedValue, v.num)
             [] v.type = "boolean" -> EmitsValue(IF v.bool THEN <<"T","R","U","E">> ELSE <<"F","A","L","S","E">>)
             [] v.type = "date" -> result.ok /\ IsIsoOf(EmittedValue, v)
             [] v.type = "array" ->
                   (/\ toUpperCase(TheCondition.operator) \in SetOperators
                    /\ \A i \in 1..Len(v.items) : IsStringOrNumber(v.items[i]))
                   => EmitsValue(ArrayText(v.items))
             [] v.type = "undefined" ->
                   FailsWith("Undefined values are not allowed in WHERE clauses")
             [] OTHER ->
                   /\ FailsWith("Unsupported value type: ${typeof condition.value}")
                   /\ result.error.values = <<v.typeof>>

\* the value is a finite number, a valid Date, or of a type other than these two
FiniteAndValid(v) ==
    /\ v.type = "number" => v.num.kind = "finite"
    /\ v.type = "date" => v.valid
    /\ v.type = "array" =>
          \A i \in 1..Len(v.items) : v.items[i].type = "number" => v.items[i].num.kind = "finite"

\* C12 on every value that is not NaN, an infinity or an invalid Date
C12_FiniteValuesSerializedByType ==
    (SingleCondition /\ FiniteAndValid(TheCondition.value)) => C12_ValuesSerializedByType

C12_FiniteWitness ==
    /\ SingleCondition
    /\ TheCondition = Condition(<<"N","a","m","e">>, <<"<",">">>, JsDate(11016, 45296789))
    /\ result = Returned(<<"N","a","m","e"," ","<",">"," ","2","0","0","0","-","0","2","-","2","9","T","1","2",":","3","4",":","5","6",".","7","8","9","Z">>)

C12_NumberWitness ==
    /\ SingleCondition
    /\ TheCondition = Condition(<<"N","a","m","e">>, <<"=">>, JsNumber(Finite(0 - 3)))
    /\ result.ok
    /\ EmittedValue \in {<<"-","1",".","5">>, <<"-","1">>}

\* C13: a condition whose value is an array succeeds only with the operator IN,
\* NOT IN, INCLUDES or EXCLUDES (in any case) and only if every element is a
\* string or a number; with another allowed operator it fails with the
\* operator/value mismatch error, and with an element of another type it fails.
C13_ArrayNeedsSetOperator ==
    (SingleCondition /\ TheCondition.value.type = "array") =>
        LET items == TheCondition.value.items
            op == toUpperCase(TheCondition.operator)
        IN /\ result.ok =>
                 /\ op \in SetOperators
                 /\ \A i \in 1..Len(items) : IsStringOrNumber(items[i])
           /\ (FieldAndOperatorPass(TheCondition) /\ op \notin SetOperators) =>
                 FailsWith("Array values can only be used with IN, NOT IN, INCLUDES, or EXCLUDES operators")
           /\ (\E i \in 1..Len(items) : ~IsStringOrNumber(items[i])) => ~result.ok
           /\ (/\ FieldAndOperatorPass(TheCondition) /\ op \in SetOperators
               /\ \E i \in 1..Len(items) : ~IsStringOrNumber(items[i])) =>
                 FailsWith("Array values must be strings or numbers")

C13_Witness ==
    /\ SingleCondition
    /\ TheCondition = Condition(<<"N","a","m","e">>, <<"l","i","k","e">>, JsArray(<<JsString(<<"O",QUOTE,"B">>), JsNumber(NumberOf(5))>>))
    /\ FailsWith("Array values can only be used with IN, NOT IN, INCLUDES, or EXCLUDES operators")

C13_WitnessElement ==
    /\ SingleCondition
    /\ TheCondition = Condition(<<"N","a","m","e">>, <<"N","o","t"," ","I","n">>, JsArray(<<JsString(<<"O",QUOTE,"B">>), JsNull>>))
    /\ FailsWith("Array values must be strings or numbers")

C13_WitnessAccepted ==
    /\ SingleCondition
    /\ TheCondition = Condition(<<"N","a","m","e">>, <<"i","n","c","l","u","d","e","s">>, JsArray(<<JsString(<<"O",QUOTE,"B">>), JsNumber(NumberOf(5))>>))
    /\ result = Returned(<<"N","a","m","e"," ","I","N","C","L","U","D","E","S"," ","(",QUOTE,"O",BS,QUOTE,"B",QUOTE,",", " ","5",")">>)

BuildWhereDone == fn = "buildSafeWhereClause" /\ pc = "done"

\* the clause a condition gives when it is the only one
ClauseAlone(c) == buildSafeWhereClause(<<c>>)

\* C14: a condition is accepted only if its operator, upper-cased, is on the
\* allow-list, and fails with the invalid-operator error otherwise; the clause
\* of one condition is field, space, upper-cased operator, space, value; the
\* clauses of several conditions are joined with ' AND ' in input order.
C14_OperatorAllowList ==
    BuildWhereDone =>
        LET cs == args.conditions
        IN /\ result.ok =>
                 /\ \A i \in 1..Len(cs) : toUpperCase(cs[i].operator) \in AllowedOperators
                 /\ \A i \in 1..Len(cs) : ClauseAlone(cs[i]).ok
                 /\ result.value = join([i \in 1..Len(cs) |-> ClauseAlone(cs[i]).value], <<" ","A","N","D"," ">>)
           /\ (\A i \in 1..Len(cs) : ClauseAlone(cs[i]).ok) => result.ok
           /\ Len(cs) = 1 =>
                 /\ (/\ validateFieldName(cs[1].field).ok
                     /\ toUpperCase(cs[1].operator) \notin AllowedOperators) =>
                       /\ FailsWith("Invalid operator: ${condition.operator}")
                       /\ result.error.values = <<cs[1].operator>>
                 /\ result.ok =>
                       /\ startsWith(result.value, ClausePrefix(cs[1]))
                       /\ EmittedValue = serializeValue(cs[1]).value

C14_Witness ==
    /\ BuildWhereDone
    /\ args.conditions = <<Condition(<<"N","a","m","e">>, <<"l","i","k","e">>, JsString(<<"A","%">>)),
                           Condition(<<"A","m","o","u","n","t">>, <<">","=">>, JsNumber(NumberOf(5)))>>
    /\ result = Returned(<<"N","a","m","e"," ","L","I","K","E"," ",QUOTE,"A","%",QUOTE>>
                         \o <<" ","A","N","D"," ","A","m","o","u","n","t"," ",">","="," ","5">>)

C14_WitnessRejected ==
    /\ SingleCondition
    /\ TheCondition = Condition(<<"N","a","m","e">>, <<"M","A","Y","B","E">>, JsNumber(NumberOf(42)))
    /\ FailsWith("Invalid operator: ${condition.operator}")
    /\ result.error.values = <<<<"M","A","Y","B","E">>>>

BuildQueryReturned == fn = "buildSafeQuery" /\ pc = "done" /\ result.ok

\* keyword followed by a clause text, or nothing when the clause is not asked for
OptionalClause(asked, keyword, text) == IF asked THEN keyword \o text ELSE <<>>

\* the query is SELECT fields FROM object [WHERE ...] [ORDER BY ...] [LIMIT n],
\* the fields being the input fields in input order
SimpleSelectShape ==
    LET hasWhere == args.where.defined /\ args.where.v # <<>>
        hasOrderBy == args.orderBy.defined /\ args.orderBy.v # <<>>
        where == buildSafeWhereClause(args.where.v)
        orderBy == buildSafeOrderBy(args.orderBy.v, Undefined)
    IN /\ hasWhere => (where.ok /\ where.value # <<>>)
       /\ hasOrderBy => (orderBy.ok /\ orderBy.value # <<>>)
       /\ args.limit.defined => LimitInRange(args.limit.v)
       /\ result.value =
             <<"S","E","L","E","C","T"," ">> \o join(args.fields, <<",", " ">>) \o <<" ","F","R","O","M"," ">> \o args.object
             \o OptionalClause(hasWhere, <<" ","W","H","E","R","E"," ">>, where.value)
             \o OptionalClause(hasOrderBy, <<" ","O","R","D","E","R"," ","B","Y"," ">>, orderBy.value)
             \o OptionalClause(args.limit.defined, <<" ","L","I","M","I","T"," ">>, NumberToString(args.limit.v))

\* C15: whenever buildSafeQuery returns, the result is SELECT fields FROM object
\* followed in this order by an optional WHERE, ORDER BY and LIMIT clause, the
\* select list is the input fields in input order, and no clause is empty: the
\* SELECT list, the WHERE condition and the ORDER BY list are non-empty.
C15_SimpleSelectShape ==
    BuildQueryReturned =>
        /\ SimpleSelectShape
        /\ args.fields # <<>>
        /\ ~startsWith(result.value, <<"S","E","L","E","C","T"," "," ","F","R","O","M">>)

\* C15 without the non-empty SELECT list
C15_ShapeOfReturnedQuery == BuildQueryReturned => SimpleSelectShape

C15_ShapeWitness ==
    /\ BuildQueryReturned
    /\ result.value = <<"S","E","L","E","C","T"," ","I","d",","," ","A","c","c","o","u","n","t",".","N","a","m","e"," ","F","R","O","M"," ","A","c","c","o","u","n","t"," ","W","H","E","R","E"," ","N","a","m","e"," ","="," ">> \o Quoted(<<"x">>)
                      \o <<" ","O","R","D","E","R"," ","B","Y"," ","N","a","m","e"," ","A","S","C",","," ","I","d"," ","D","E","S","C"," ","L","I","M","I","T"," ","1","0">>

\* ---- the query text of handleAggregateQuery ----
RECURSIVE CommaList(_)
CommaList(xs) ==
    IF xs = <<>> THEN <<>>
    ELSE IF Len(xs) = 1 THEN xs[1]
    ELSE xs[1] \o <<","," ">> \o CommaList(Tail(xs))

IsSupplied(x) == x.defined
IsNonEmpty(x) == x.defined /\ x.v # <<>>
TextOf(x) == IF x.defined THEN x.v ELSE <<>>

\* SELECT ... FROM ... [WHERE ...] GROUP BY ... [HAVING ...] [ORDER BY ...],
\* an optional clause being written when Present says so
AggregateClauses(a, Present(_)) ==
    <<"S","E","L","E","C","T"," ">> \o CommaList(a.selectFields)
    \o <<" ","F","R","O","M"," ">> \o a.objectName
    \o OptionalClause(Present(a.whereClause), <<" ","W","H","E","R","E"," ">>, TextOf(a.whereClause))
    \o <<" ","G","R","O","U","P"," ","B","Y"," ">> \o CommaList(a.groupByFields)
    \o OptionalClause(Present(a.havingClause), <<" ","H","A","V","I","N","G"," ">>, TextOf(a.havingClause))
    \o OptionalClause(Present(a.orderBy), <<" ","O","R","D","E","R"," ","B","Y"," ">>, TextOf(a.orderBy))

\* text is the clauses above, followed by LIMIT and the decimal numeral of the
\* limit when a limit is supplied
HasAggregateShape(text, a, Present(_)) ==
    LET clauses == AggregateClauses(a, Present)
        n == Len(clauses) + 7
    IN IF a.limit.defined
       THEN /\ Len(text) > n
            /\ SubSeq(text, 1, n) = clauses \o <<" ","L","I","M","I","T"," ">>
            /\ IsDecimalOf(SubSeq(text, n + 1, Len(text)), a.limit.v)
       ELSE text = clauses

\* the handler passed its checks and handed a query to conn.query
AggregatePassed == fn = "handleAggregateQuery" /\ pc = "querying"

C16_WitnessEmpty ==
    /\ fn = "handleAggregateQuery"
    /\ args.whereClause = Some(<<>>) /\ args.havingClause = Some(<<>>) /\ args.orderBy = Some(<<>>)
    /\ queries = <<<<"S","E","L","E","C","T"," ","T","y","p","e"," ","t"," ","F","R","O","M"," ","O","p","p","o","r","t","u","n","i","t","y"," ","G","R","O","U","P"," ","B","Y"," ","T","y","p","e",","," ","S","t","a","g","e","N","a","m","e">>>>

\* ---- the WHERE check of handleAggregateQuery ----
AggregateInWhereTemplate ==
    "WHERE clause cannot contain aggregate functions. Use HAVING clause instead for aggregate conditions like ${func}()"

AggregateInWhere == args.whereClause.defined /\ IsAggregateCall(args.whereClause.v)

WhereCheckFailed ==
    /\ fn = "handleAggregateQuery"
    /\ pc = "done"
    /\ queries = <<>>
    /\ result.isError
    /\ result.text.template = AggregateInWhereTemplate

GroupByPasses ==
    \A k \in 1..Len(args.selectFields) :
        ~IsAggregateCall(args.selectFields[k]) =>
            BaseField(args.selectFields[k]) \in
                {trim(args.groupByFields[j]) : j \in 1..Len(args.groupByFields)}

\* C17: handleAggregateQuery fails with the aggregate-in-WHERE error, without
\* querying, whenever the upper-cased whereClause contains COUNT(,
\* COUNT_DISTINCT(, SUM(, AVG(, MIN( or MAX(; a whereClause containing none of
\* these is never rejected by this check; and when the GROUP BY check also
\* fails, the GROUP BY error is the one reported.
C17_AggregateInWhereRejected ==
    (fn = "handleAggregateQuery" /\ BuildEnded) =>
        /\ AggregateInWhere => (pc = "done" /\ queries = <<>> /\ result.isError)
        /\ (AggregateInWhere /\ GroupByPasses) =>
              /\ WhereCheckFailed
              /\ \E k \in 1..Len(AGGREGATE_FUNCTIONS) :
                    /\ result.text.values = <<AGGREGATE_FUNCTIONS[k]>>
                    /\ \E i \in 1..Len(args.whereClause.v) :
                          startsWithAt(toUpperCase(args.whereClause.v),
                                       AGGREGATE_FUNCTIONS[k] \o <<"(">>, i)
        /\ ~AggregateInWhere => ~WhereCheckFailed
        /\ (AggregateInWhere /\ ~GroupByPasses) => GroupByCheckFailed

\* two calls in WHERE in mixed case, the GROUP BY check passed
C17_Witness ==
    /\ WhereCheckFailed
    /\ args.whereClause = Some(<<"M","a","x","(","A","m","o","u","n","t",")"," ",">"," ","s","u","m","(","C","o","s","t",")">>)
    /\ args.selectFields = <<<<"S","t","a","g","e","N","a","m","e">>>>
    /\ args.groupByFields = <<<<"S","t","a","g","e","N","a","m","e">>>>
    /\ result.text.values = <<<<"S","U","M">>>>

\* both checks fail
C17_WitnessGroupByFirst ==
    /\ GroupByCheckFailed
    /\ args.whereClause = Some(<<"M","a","x","(","A","m","o","u","n","t",")"," ",">"," ","s","u","m","(","C","o","s","t",")">>)
    /\ args.selectFields = <<<<"T","y","p","e"," ","t">>>>
    /\ args.groupByFields = <<<<"S","t","a","g","e","N","a","m","e">>>>

\* ---- the ORDER BY check of handleAggregateQuery ----
RECURSIVE SplitOnComma(_)
SplitOnComma(text) ==
    IF \A i \in 1..Len(text) : text[i] # "," THEN <<text>>
    ELSE LET k == CHOOSE i \in 1..Len(text) :
                      text[i] = "," /\ \A j \in 1..(i - 1) : text[j] # ","
         IN <<SubSeq(text, 1, k - 1)>> \o SplitOnComma(SubSeq(text, k + 1, Len(text)))

EndsWithWord(p, word) ==
    /\ Len(p) > Len(word)
    /\ p[Len(p) - Len(word)] = " "
    /\ toUpperCase(SubSeq(p, Len(p) - Len(word) + 1, Len(p))) = word

\* an ORDER BY entry without its one trailing ASC or DESC
EntryField(entry) ==
    LET p == trim(entry)
    IN IF EndsWithWord(p, <<"A","S","C">>) THEN trim(SubSeq(p, 1, Len(p) - 4))
       ELSE IF EndsWithWord(p, <<"D","E","S","C">>) THEN trim(SubSeq(p, 1, Len(p) - 5))
       ELSE p

EntryFields(a) ==
    LET entries == SplitOnComma(a.orderBy.v)
    IN [k \in 1..Len(entries) |-> EntryField(entries[k])]

InGroupByOrAggregate(field) ==
    field \in Range(args.groupByFields) \/ IsAggregateCall(field)

\* the first whitespace-delimited tokens of the select entries that hold an
\* aggregate-function call
SelectedAggregates ==
    {BaseField(args.selectFields[k]) :
        k \in {j \in 1..Len(args.selectFields) : IsAggregateCall(args.selectFields[j])}}

InGroupByOrAggregateOrSelected(field) ==
    InGroupByOrAggregate(field) \/ field \in SelectedAggregates

OrderByErrorTemplate ==
    "ORDER BY field '${orderField}' must be in GROUP BY clause or be an aggregate function"

OrderByCheckFailed ==
    /\ fn = "handleAggregateQuery"
    /\ pc = "done"
    /\ queries = <<>>
    /\ result.isError
    /\ result.text.template = OrderByErrorTemplate

\* the ORDER BY check is reached with a non-empty orderBy string
OrderByChecked ==
    /\ fn = "handleAggregateQuery"
    /\ BuildEnded
    /\ IsNonEmpty(args.orderBy)
    /\ GroupByPasses
    /\ ~AggregateInWhere

\* the orderBy string is accepted exactly when every entry satisfies Rule;
\* otherwise the error names the first entry that does not
OrderByDecidedBy(Rule(_)) ==
    LET fields == EntryFields(args)
        offending == {k \in 1..Len(fields) : ~Rule(fields[k])}
    IN IF offending = {}
       THEN queries # <<>>
       ELSE /\ OrderByCheckFailed
            /\ result.text.values =
                  <<fields[CHOOSE k \in offending : \A j \in offending : k <= j]>>

\* C18: handleAggregateQuery accepts an orderBy string if and only if every
\* comma-separated entry, after stripping one trailing ASC or DESC, either
\* appears in groupByFields or is an aggregate-function call; otherwise it
\* fails with the ORDER BY error, whose message names the first offending
\* entry, and no query is submitted.
C18_OrderByRule == OrderByChecked => OrderByDecidedBy(InGroupByOrAggregate)

\* the same with a third way for an entry to pass: it equals the first token
\* of a select entry that holds an aggregate-function call
C18_OrderByRuleWithSelected ==
    OrderByChecked => OrderByDecidedBy(InGroupByOrAggregateOrSelected)

\* two offending entries, the first one named
C18_WitnessFirstNamed ==
    /\ OrderByCheckFailed
    /\ args.orderBy = Some(<<"F","o","o"," ","a","s","c",","," ","A","m","o","u","n","t">>)
    /\ result.text.values = <<<<"F","o","o">>>>

\* an aggregate call with a direction and a grouped field
C18_WitnessAccepted ==
    /\ fn = "handleAggregateQuery"
    /\ args.orderBy = Some(<<"C","O","U","N","T","(","I","d",")"," ","d","e","s","c",","," ","T","y","p","e">>)
    /\ queries # <<>>

\* ---- the relationship depth check of handleQueryRecords ----
PathChars == Letters \cup Digits \cup {"_", "."}

\* the maximal runs of path characters of an entry that hold a dot: its dotted
\* relationship paths
DottedPaths(entry) ==
    {SubSeq(entry, r[1], r[2]) : r \in
        {<<i, j>> \in (1..Len(entry)) \X (1..Len(entry)) :
            /\ i <= j
            /\ \A k \in i..j : entry[k] \in PathChars
            /\ \E k \in i..j : entry[k] = "."
            /\ (i = 1 \/ entry[i - 1] \notin PathChars)
            /\ (j = Len(entry) \/ entry[j + 1] \notin PathChars)}}

Segments(path) == Cardinality({k \in 1..Len(path) : path[k] = "."}) + 1

HasEmptySegment(path) ==
    \/ Head(path) = "."
    \/ path[Len(path)] = "."
    \/ \E k \in 1..(Len(path) - 1) : path[k] = "." /\ path[k + 1] = "."

TooDeep(entry) == \E path \in DottedPaths(entry) : Segments(path) > 5

DepthErrorTemplate == "Relationship field \"${field}\" exceeds maximum depth of 5 levels"

DepthErrorReported ==
    /\ fn = "handleQueryRecords"
    /\ pc = "done"
    /\ queries = <<>>
    /\ result.isError
    /\ result.text.template = DepthErrorTemplate

InvalidFieldNameReported ==
    /\ fn = "handleQueryRecords"
    /\ pc = "done"
    /\ queries = <<>>
    /\ result.isError
    /\ result.text.template = "Error executing query: Invalid field name: ${fieldName}. Field names must contain only alphanumeric characters, underscores, and dots for relationships."

\* the checks that come before the relationship check passed
NamesPass ==
    /\ validateObjectName(args.objectName).ok
    /\ \A k \in 1..Len(args.fields) : validateFieldName(args.fields[k]).ok

\* the depth rule for the entries that satisfy Scope
DepthDecidedFor(Scope(_)) ==
    /\ DepthErrorReported =>
          \E k \in 1..Len(args.fields) :
              /\ result.text.values = <<args.fields[k]>>
              /\ Scope(args.fields[k]) => TooDeep(args.fields[k])
    /\ (/\ NamesPass
        /\ args.fields # <<>>
        /\ Scope(args.fields[1])
        /\ TooDeep(args.fields[1])) =>
              (DepthErrorReported /\ result.text.values = <<args.fields[1]>>)
    /\ (/\ validateObjectName(args.objectName).ok
        /\ args.fields # <<>>
        /\ \E path \in DottedPaths(args.fields[1]) : HasEmptySegment(path)) =>
              (InvalidFieldNameReported /\ result.text.values = <<args.fields[1]>>)

AnyEntry(entry) == TRUE
PlainPath(entry) == \A k \in 1..Len(entry) : entry[k] \in PathChars

\* C19: handleQueryRecords rejects a select entry for depth (error 'exceeds
\* maximum depth of 5 levels', no query submitted) if and only if one of the
\* entry's dotted relationship paths has more than 5 dot-separated segments; an
\* entry whose every relationship path has at most 5 segments is never rejected
\* for depth, and a path with an empty segment (such as Account..Name) is
\* rejected before the depth check as an invalid field name.
C19_RelationshipDepthCap ==
    (fn = "handleQueryRecords" /\ BuildEnded) => DepthDecidedFor(AnyEntry)

\* the same for the entries that are one dotted path and nothing else
C19_PlainPathDepthCap ==
    (fn = "handleQueryRecords" /\ BuildEnded) => DepthDecidedFor(PlainPath)

\* six segments rejected
C19_WitnessSix ==
    /\ DepthErrorReported
    /\ args.fields = <<<<"a",".","b",".","c",".","d",".","e",".","f">>>>

\* five segments accepted
C19_WitnessFive ==
    /\ fn = "handleQueryRecords"
    /\ args.fields = <<<<"a",".","b",".","c",".","d",".","e">>>>
    /\ queries # <<>>

\* an empty segment
C19_WitnessEmptySegment ==
    /\ InvalidFieldNameReported
    /\ args.fields = <<<<"a",".",".","b">>>>

\* ---- buildSafeOrderBy ----
BuildOrderByDone == fn = "buildSafeOrderBy" /\ pc = "done"

IsOmitted(direction) == ~direction.defined
IsOmittedOrEmpty(direction) == ~direction.defined \/ direction.v = <<>>

\* the field is an element of the list, or the field part of an element of
\* the form 'field ASC' or 'field DESC'
ListedOrWithDirection(allowed, field) ==
    \E k \in 1..Len(allowed) :
        allowed[k] \in {field, field \o <<" ","A","S","C">>, field \o <<" ","D","E","S","C">>}

\* the field is an element of the list, or is followed by a space at the start
\* of an element
ListedOrBeforeSpace(allowed, field) ==
    \E k \in 1..Len(allowed) :
        \/ allowed[k] = field
        \/ /\ Len(allowed[k]) > Len(field)
           /\ SubSeq(allowed[k], 1, Len(field)) = field
           /\ allowed[k][Len(field) + 1] = " "

FieldPasses(entry) == validateFieldName(entry.field).ok

AllowListPasses(entry, Listed(_, _)) ==
    args.allowedFields.defined => Listed(args.allowedFields.v, entry.field)

DirectionPasses(entry, Omitted(_)) ==
    Omitted(entry.direction) \/ entry.direction.v \in {<<"A","S","C">>, <<"D","E","S","C">>}

EntryText(entry, Omitted(_)) ==
    entry.field \o <<" ">> \o (IF Omitted(entry.direction) THEN <<"A","S","C">> ELSE entry.direction.v)

\* the call succeeds exactly when every entry passes the field, allow-list and
\* direction checks, and then returns the entries' texts joined with ', ' in
\* input order; otherwise it fails with the error of the first failing check
\* of the first failing entry
OrderByBuiltWith(Omitted(_), Listed(_, _)) ==
    LET entries == args.orderByFields
        Passes(k) == /\ FieldPasses(entries[k])
                     /\ AllowListPasses(entries[k], Listed)
                     /\ DirectionPasses(entries[k], Omitted)
        failing == {k \in 1..Len(entries) : ~Passes(k)}
    IN IF failing = {}
       THEN /\ result.ok
            /\ result.value = CommaList([k \in 1..Len(entries) |-> EntryText(entries[k], Omitted)])
       ELSE LET first == entries[CHOOSE k \in failing : \A j \in failing : k <= j]
            IN /\ ~result.ok
               /\ IF ~FieldPasses(first)
                  THEN result.error = validateFieldName(first.field).error
                  ELSE IF ~AllowListPasses(first, Listed)
                  THEN /\ result.error.template = "Field ${orderBy.field} is not allowed in ORDER BY clause"
                       /\ result.error.values = <<first.field>>
                  ELSE result.error.template = "ORDER BY direction must be ASC or DESC"

\* C20 as stated: buildSafeOrderBy validates every entry's field with
\* validateFieldName, emits 'field ASC' when the direction is omitted, fails
\* unless the direction is exactly ASC or DESC, and, when an allow-list is
\* supplied, fails for every field that is neither equal to an allow-list
\* element nor the field part of an allow-list element of the form
\* 'field DIRECTION'; entries are joined with ', ' in input order.
C20_StructuredOrderByVerbatim ==
    BuildOrderByDone => OrderByBuiltWith(IsOmitted, ListedOrWithDirection)

\* C20 as amended: ... emits 'field ASC' when the direction is omitted or is
\* the empty string, fails unless the direction is otherwise exactly ASC or
\* DESC, and, when an allow-list is supplied, fails for every field that is
\* neither equal to an allow-list element nor followed by a space at the start
\* of an allow-list element; entries are joined with ', ' in input order.
C20_StructuredOrderByPrefix ==
    BuildOrderByDone => OrderByBuiltWith(IsOmittedOrEmpty, ListedOrBeforeSpace)

\* two entries, the first without a direction, the second allowed through an
\* element with a direction
C20_Witness ==
    /\ BuildOrderByDone
    /\ args.orderByFields = <<OrderByEntry(<<"C","r","e","a","t","e","d","D","a","t","e">>, Undefined), OrderByEntry(<<"C","r","e","a","t","e","d","D","a","t","e">>, Some(<<"D","E","S","C">>))>>
    /\ args.allowedFields = Some(<<<<"C","r","e","a","t","e","d","D","a","t","e"," ","D","E","S","C">>, <<"I","d">>>>)
    /\ result = Returned(<<"C","r","e","a","t","e","d","D","a","t","e"," ","A","S","C",","," ","C","r","e","a","t","e","d","D","a","t","e"," ","D","E","S","C">>)

\* a field off the allow-list
C20_WitnessNotAllowed ==
    /\ BuildOrderByDone
    /\ args.orderByFields = <<OrderByEntry(<<"N","a","m","e">>, Some(<<"A","S","C">>))>>
    /\ args.allowedFields = Some(<<<<"N","a","m","e","s">>, <<"N","a","m","e","_","x"," ","D","E","S","C">>>>)
    /\ ~result.ok
    /\ result.error.values = <<<<"N","a","m","e">>>>

\* a direction in lower case
C20_WitnessDirection ==
    /\ BuildOrderByDone
    /\ args.orderByFields = <<OrderByEntry(<<"N","a","m","e">>, Some(<<"a","s","c">>))>>
    /\ ~args.allowedFields.defined
    /\ ~result.ok

\* ---- sanitizeWhereClause called on its own ----
SanitizeFrags == {
    <<"O","R">>, <<"a","n","d">>, <<" ">>, <<" ","1">>, <<"=","1">>, <<"x">>, <<"S","e","l","e","c","t">>, <<"_">>, <<";">>, <<"-">>, <<"*">>, <<"/">>, <<"x","p","_">>, <<"D","r","o","p">>, <<TAB>>, <<QUOTE>>}

ListedWhereInputs == {
    <<"N","a","m","e"," ","="," ",QUOTE,"x",QUOTE," ","O","R"," ","1"," ","="," ","1">>,
    <<"a"," ","="," ","2"," ","A","N","D"," "," ","1","2","=","3">>,
    <<"n","o","r"," ","1","=","1">>,
    <<"a"," ","O","R"," ","1","=","b">>,
    <<"s","e","l","e","c","t","e","d"," ","="," ","1">>,
    <<"x"," ","="," ","1"," ","u","n","i","o","n"," ","a","l","l">>,
    <<"E","X","E","C","U","T","E">>,
    <<"e","x","e","c","u","t","e","d">>,
    <<"A","m","o","u","n","t"," ","*"," ","2"," ",">"," ","1">>,
    <<"S","P","_","w","h","o">>,
    <<"N","a","m","e"," ","L","I","K","E"," ",QUOTE,"a","%",QUOTE," ","A","N","D"," ","A","m","o","u","n","t"," ",">","="," ","1","0">>,
    <<" ","N","a","m","e"," ","="," ",QUOTE,"x",QUOTE," ">>}

MaxSanitizeFrags == 3
SanitizeInputs ==
    {Flatten(fs) : fs \in StringsUpTo(SanitizeFrags, MaxSanitizeFrags)} \cup ListedWhereInputs

CallSanitizeWhereClause(whereClause) ==
    /\ pc = "idle"
    /\ pc' = "done"
    /\ fn' = "sanitizeWhereClause"
    /\ args' = [whereClause |-> whereClause]
    /\ result' = sanitizeWhereClause(whereClause)
    /\ UNCHANGED queries

\* a second call with the same argument, after the first has ended
RepeatSanitizeWhereClause ==
    /\ pc = "done"
    /\ fn = "sanitizeWhereClause"
    /\ pc' = "done"
    /\ fn' = "sanitizeWhereClause#2"
    /\ result' = [first |-> result, again |-> sanitizeWhereClause(args.whereClause)]
    /\ UNCHANGED <<args, queries>>

NextSanitize ==
    \/ pc = "idle" /\ \E w \in SanitizeInputs : CallSanitizeWhereClause(w)
    \/ RepeatSanitizeWhereClause

SpecSanitize == Init /\ [][NextSanitize]_vars

SanitizeDone == fn = "sanitizeWhereClause" /\ pc = "done"

IsWordChar(c) == c \in Letters \cup Digits \cup {"_"}

\* text occurs in s at position i, letter case ignored
OccursAt(s, text, i) ==
    /\ i + Len(text) - 1 <= Len(s)
    /\ toUpperCase(SubSeq(s, i, i + Len(text) - 1)) = toUpperCase(text)

Occurs(s, text) == \E i \in 1..Len(s) : OccursAt(s, text, i)

\* text occurs in s at position i with no word character right before or after
WordAt(s, text, i) ==
    /\ OccursAt(s, text, i)
    /\ (i = 1 \/ ~IsWordChar(s[i - 1]))
    /\ (i + Len(text) > Len(s) \/ ~IsWordChar(s[i + Len(text)]))

DeniedWords == {<<"U","N","I","O","N">>, <<"S","E","L","E","C","T">>, <<"I","N","S","E","R","T">>, <<"U","P","D","A","T","E">>, <<"D","E","L","E","T","E">>, <<"D","R","O","P">>, <<"C","R","E","A","T","E">>, <<"A","L","T","E","R">>, <<"E","X","E","C">>, <<"E","X","E","C","U","T","E">>}
DeniedTokensListed == {<<";">>, <<"-","-">>, <<"/","*">>, <<"*","/">>, <<"x","p","_">>, <<"s","p","_">>}
DeniedTokensWithStar == DeniedTokensListed \cup {<<"*">>}

HasDeniedWord(s) == \E w \in DeniedWords : \E i \in 1..Len(s) : WordAt(s, w, i)

\* the whole word, white space, a number, '=' with optional white space around
\* it, a number
TautologyAt(s, word, i) ==
    /\ WordAt(s, word, i)
    /\ \E a, b, c, d \in 1..Len(s) :
          /\ a = i + Len(word) /\ a < b /\ b < c /\ c < d
          /\ \A k \in a..(b - 1) : s[k] \in WhiteSpace
          /\ \E e \in b..(c - 1) :
                /\ \A k \in b..e : s[k] \in Digits
                /\ \A k \in (e + 1)..(c - 1) : s[k] \in WhiteSpace
          /\ s[c] = "="
          /\ \E e \in (c + 1)..d :
                /\ \A k \in (c + 1)..(e - 1) : s[k] \in WhiteSpace
                /\ \A k \in e..d : s[k] \in Digits

HasTautology(s) ==
    \E i \in 1..Len(s) : TautologyAt(s, <<"O","R">>, i) \/ TautologyAt(s, <<"A","N","D">>, i)

DangerousPatternThrown ==
    /\ ~result.ok
    /\ result.error.template = "Potentially dangerous SQL pattern detected in WHERE clause"

\* the sanitizer with a given set of denied tokens
SanitizesWith(tokens) ==
    LET w == args.whereClause
    IN IF \A i \in 1..Len(w) : w[i] \in WhiteSpace
       THEN result = Returned(<<>>)
       ELSE IF HasDeniedWord(w) \/ (\E t \in tokens : Occurs(w, t)) \/ HasTautology(w)
       THEN DangerousPatternThrown
       ELSE result = Returned(w)

\* C21 as stated: sanitizeWhereClause returns the empty string for an empty or
\* whitespace-only input; fails with the dangerous-pattern error for every input
\* that contains, case-insensitively, one of UNION, SELECT, INSERT, UPDATE,
\* DELETE, DROP, CREATE, ALTER, EXEC, EXECUTE as a whole word, or one of
\* ; -- /* */ xp_ sp_, or an 'OR <num>=<num>' / 'AND <num>=<num>' tautology; and
\* returns every other input unchanged.
C21_SanitizerDenyListVerbatim == SanitizeDone => SanitizesWith(DeniedTokensListed)

\* C21 as amended: the denied tokens are ; -- * /* */ xp_ sp_, a lone asterisk
\* included.
C21_SanitizerDenyListWithStar == SanitizeDone => SanitizesWith(DeniedTokensWithStar)

\* a clause with neither a denied word nor a denied token comes back as given,
\* its outer blanks kept
C21_Witness ==
    /\ SanitizeDone
    /\ args.whereClause = <<" ","N","a","m","e"," ","="," ",QUOTE,"x",QUOTE," ">>
    /\ result = Returned(<<" ","N","a","m","e"," ","="," ",QUOTE,"x",QUOTE," ">>)

C21_WitnessTautology ==
    /\ SanitizeDone
    /\ args.whereClause = <<"a"," ","="," ","2"," ","A","N","D"," "," ","1","2","=","3">>
    /\ DangerousPatternThrown

C21_WitnessNotWholeWord ==
    /\ SanitizeDone
    /\ args.whereClause = <<"s","e","l","e","c","t","e","d"," ","="," ","1">>
    /\ result.ok

\* ---- the length caps: validateInputLength on its own, and the two handlers
\* ---- called with inputs at and above the caps
Repeated(c, n) == [i \in 1..n |-> c]

LengthCaps == {MAX_FIELD_LENGTH, MAX_WHERE_LENGTH, MAX_QUERY_LENGTH}

GuardInputs ==
    {[input |-> Repeated("a", cap + d), maxLength |-> cap, fieldName |-> <<"i","n","p","u","t">>] :
        cap \in LengthCaps, d \in {0 - 1, 0, 1}}

LengthFieldInputs == {<<"I","d">>, Repeated("a", MAX_FIELD_LENGTH), Repeated("a", MAX_FIELD_LENGTH + 1)}

LengthQueryInputs ==
    {[objectName |-> o, fields |-> fs, whereClause |-> w, orderBy |-> Undefined, limit |-> l] :
        o \in {<<"A","c","c","o","u","n","t">>, <<"a",";","b">>},
        fs \in StringsUpTo(LengthFieldInputs, MaxFields),
        w \in {Undefined, Some(Repeated("a", MAX_WHERE_LENGTH)), Some(Repeated("a", MAX_WHERE_LENGTH + 1))},
        l \in {Undefined, Some(NumberOf(10))}}

LengthAggregateInputs ==
    {[objectName |-> <<"O","p","p","o","r","t","u","n","i","t","y">>, selectFields |-> <<f>>, groupByFields |-> <<f>>,
      whereClause |-> w, havingClause |-> Undefined, orderBy |-> Undefined, limit |-> Undefined] :
        f \in LengthFieldInputs,
        w \in {Undefined, Some(Repeated("a", MAX_WHERE_LENGTH + 1)), Some(Repeated("a", MAX_QUERY_LENGTH + 1))}}

CallValidateInputLength(a) ==
    /\ pc = "idle"
    /\ pc' = "done"
    /\ fn' = "validateInputLength"
    /\ args' = a
    /\ result' = validateInputLength(a.input, a.maxLength, a.fieldName)
    /\ UNCHANGED queries

NextLength ==
    \/ pc = "idle" /\ \E a \in GuardInputs : CallValidateInputLength(a)
    \/ pc = "idle" /\ \E a \in LengthQueryInputs : CallHandleQueryRecords(a)
    \/ pc = "idle" /\ \E a \in LengthAggregateInputs : CallHandleAggregateQuery(a)

SpecLength == Init /\ [][NextLength]_vars

TooLongTemplates == {
    "${fieldName} exceeds maximum length of ${maxLength} characters",
    "WHERE clause exceeds maximum length of ${MAX_WHERE_LENGTH} characters"}

\* the call ended with a too-long error and without a query
RejectedAsTooLong ==
    /\ pc = "done"
    /\ queries = <<>>
    /\ result.isError
    /\ result.text.template \in TooLongTemplates

HasLongField == \E k \in 1..Len(SelectList) : Len(SelectList[k]) > MAX_FIELD_LENGTH
HasLongWhere == args.whereClause.defined /\ Len(args.whereClause.v) > MAX_WHERE_LENGTH
HasLongQuery == queries # <<>> /\ Len(queries[1]) > MAX_QUERY_LENGTH

\* C22: a field-name input longer than 255 characters, a WHERE-clause text
\* longer than 5000 characters and a full query text longer than 10000
\* characters are each rejected with a too-long error, before any other
\* validation or parsing of the request; an input whose length equals its cap
\* is accepted by the guard.
C22_InputLengthGuards ==
    IsHandler =>
        /\ (HasLongField \/ HasLongWhere) => RejectedAsTooLong
        /\ ~HasLongQuery
        /\ (pc = "done" /\ queries = <<>> /\ ~HasLongField /\ ~HasLongWhere) =>
              ~RejectedAsTooLong

\* what handleQueryRecords does guard: once the object name and the field names
\* have passed, a WHERE text above the cap ends the call with the too-long
\* error and a WHERE text at the cap does not
C22_QueryRecordsWhereGuard ==
    (fn = "handleQueryRecords" /\ NamesPass) =>
        IF HasLongWhere THEN RejectedAsTooLong
        ELSE ~(pc = "done" /\ queries = <<>> /\ result.isError
               /\ result.text.template \in TooLongTemplates)

\* validateInputLength throws exactly above the cap
C22_GuardItself ==
    (fn = "validateInputLength" /\ pc = "done") =>
        /\ result.ok <=> Len(args.input) <= args.maxLength
        /\ ~result.ok => result.error.template \in TooLongTemplates

C22_WitnessAtCap ==
    /\ fn = "handleQueryRecords"
    /\ args.whereClause.defined /\ Len(args.whereClause.v) = MAX_WHERE_LENGTH
    /\ args.fields = <<Repeated("a", MAX_FIELD_LENGTH)>>
    /\ queries # <<>>

C22_WitnessAboveCap ==
    /\ fn = "handleQueryRecords"
    /\ HasLongWhere
    /\ RejectedAsTooLong

\* a field name above the cap reaches conn.query
C22_WitnessLongFieldSubmitted ==
    /\ fn = "handleQueryRecords"
    /\ args.objectName = <<"A","c","c","o","u","n","t">>
    /\ args.fields = <<Repeated("a", MAX_FIELD_LENGTH + 1)>>
    /\ queries # <<>>

(***************************************************************************)
(* Calls of the exported functions one after another, by several callers   *)
(***************************************************************************)
\* JavaScript runs each of these synchronous functions to its end before the
\* next call starts: an interleaving of callers is a sequence of calls.
MaxCalls == 2
Callers == {1, 2}

ExportedCalls ==
    {[fn |-> "validateObjectName", name |-> n] : n \in {<<"A","c","c","o","u","n","t">>, <<"a",";","b">>}}
    \cup {[fn |-> "validateFieldName", name |-> n] : n \in {<<"A","c","c","o","u","n","t",".","N","a","m","e">>, <<"C","O","U","N","T","(">>, <<"a"," ","b">>}}
    \cup {[fn |-> "sanitizeWhereClause", whereClause |-> w] :
            w \in {<<"N","a","m","e"," ","="," ",QUOTE,"x",QUOTE>>, <<"x",";"," ","D","R","O","P"," ","t">>, <<"D","R","O","P"," ","x">>, <<"a"," ","="," ","1"," ","O","R"," ","1","=","1">>, <<"O","R"," ","1","=","1">>, <<" ">>}}
    \cup {[fn |-> "buildSafeWhereClause", conditions |-> cs] :
            cs \in {<<Condition(<<"N","a","m","e">>, <<"l","i","k","e">>, JsString(<<"A","%">>))>>, <<Condition(<<"N","a","m","e">>, <<"M","A","Y","B","E">>, JsNull)>>}}
    \cup {[fn |-> "buildSafeOrderBy", orderByFields |-> <<OrderByEntry(<<"N","a","m","e">>, d)>>, allowedFields |-> Undefined] :
            d \in {Some(<<"D","E","S","C">>), Some(<<"d","o","w","n">>)}}
    \cup {[fn |-> "buildSafeQuery", params |-> QueryParams(o, <<<<"I","d">>>>, Undefined, Undefined, Some(NumberOf(10)))] :
            o \in {<<"A","c","c","o","u","n","t">>, <<"a",";","b">>}}

\* args: the calls made so far, each with its caller; result: their outcomes
\* and the state that outlives a call
CallExported(caller, c) ==
    /\ pc \in {"idle", "called"}
    /\ pc = "called" => Len(args) < MaxCalls
    /\ LET before == IF pc = "idle" THEN <<>> ELSE args
           outcomes == IF pc = "idle" THEN <<>> ELSE result.outcomes
           module == IF pc = "idle" THEN FreshPatterns ELSE result.module
           r == callExported(c, module)
       IN /\ args' = Append(before, [caller |-> caller, call |-> c])
          /\ result' = [outcomes |-> Append(outcomes, r.outcome), module |-> r.module]
    /\ pc' = "called"
    /\ fn' = "exported"
    /\ UNCHANGED queries

NextCalls == \E caller \in Callers, c \in ExportedCalls : CallExported(caller, c)

SpecCalls == Init /\ [][NextCalls]_vars

\* the outcome of a call that runs alone, written with the functions themselves
Alone(c) ==
    CASE c.fn = "validateObjectName" -> validateObjectName(c.name)
      [] c.fn = "validateFieldName" -> validateFieldName(c.name)
      [] c.fn = "buildSafeWhereClause" -> buildSafeWhereClause(c.conditions)
      [] c.fn = "buildSafeOrderBy" -> buildSafeOrderBy(c.orderByFields, c.allowedFields)
      [] c.fn = "buildSafeQuery" -> buildSafeQuery(c.params)
      [] c.fn = "sanitizeWhereClause" -> sanitizeWhereClause(c.whereClause)

CallsMade == pc = "called" /\ fn = "exported"

\* C23: in every sequence of calls of validateObjectName, validateFieldName,
\* buildSafeWhereClause, buildSafeOrderBy, buildSafeQuery and
\* sanitizeWhereClause by several callers, each call has the outcome it has
\* when it runs alone, whatever was called before it and whether or not an
\* earlier call failed, and no call leaves anything behind (the match
\* positions of the patterns are those of fresh patterns).
C23_Stateless ==
    CallsMade =>
        /\ \A k \in 1..Len(args) : result.outcomes[k] = Alone(args[k].call)
        /\ result.module = FreshPatterns

\* a sanitizeWhereClause call that failed on DROP, then one by the other
\* caller whose DROP lies before the place where the first match ended
C23_Witness ==
    /\ CallsMade
    /\ Len(args) = 2
    /\ args[1].caller # args[2].caller
    /\ args[1].call = [fn |-> "sanitizeWhereClause", whereClause |-> <<"x",";"," ","D","R","O","P"," ","t">>]
    /\ args[2].call = [fn |-> "sanitizeWhereClause", whereClause |-> <<"D","R","O","P"," ","x">>]
    /\ ~result.outcomes[1].ok
    /\ ~result.outcomes[2].ok

\* a failed call followed by a call of another function that succeeds
C23_WitnessAfterFailure ==
    /\ CallsMade
    /\ Len(args) = 2
    /\ ~result.outcomes[1].ok
    /\ args[1].call.fn # args[2].call.fn
    /\ result.outcomes[2].ok

(***************************************************************************)
(* What the error messages name                                            *)
(***************************************************************************)
\* the texts a JavaScript value can be named by in a message: its literal
\* text, the texts of its elements, or (for a value of an unsupported type)
\* the name of its type
RECURSIVE ValueTexts(_)
ValueTexts(v) ==
    CASE v.type = "string" -> {v.str}
      [] v.type = "number" -> {NumberToString(v.num)}
      [] v.type = "array" -> UNION {ValueTexts(v.items[k]) : k \in 1..Len(v.items)}
      [] v.type = "other" -> {v.typeof}
      [] OTHER -> {}

ConditionTexts(conditions) ==
    UNION {{conditions[k].field, conditions[k].operator} \cup ValueTexts(conditions[k].value) :
              k \in 1..Len(conditions)}

OrderByTexts(orderByFields) ==
    UNION {{orderByFields[k].field}
             \cup (IF orderByFields[k].direction.defined THEN {orderByFields[k].direction.v} ELSE {}) :
              k \in 1..Len(orderByFields)}

\* the field names and literal values handed to the builder that was called
CallTexts ==
    CASE fn = "buildSafeWhereClause" -> ConditionTexts(args.conditions)
      [] fn = "buildSafeOrderBy" -> OrderByTexts(args.orderByFields)
      [] fn = "buildSafeQuery" ->
            {args.object} \cup {args.fields[k] : k \in 1..Len(args.fields)}
            \cup (IF args.where.defined THEN ConditionTexts(args.where.v) ELSE {})
            \cup (IF args.orderBy.defined THEN OrderByTexts(args.orderBy.v) ELSE {})
            \cup (IF args.limit.defined THEN {NumberToString(args.limit.v)} ELSE {})

BuilderFailed == pc = "done" /\ fn \in {"buildSafeWhereClause", "buildSafeOrderBy", "buildSafeQuery"} /\ ~result.ok

\* C24: every error raised by the validators and builders has in its message
\* the offending literal value or field name: the message of a failed
\* buildSafeWhereClause, buildSafeOrderBy or buildSafeQuery call has, among
\* the values written into it, a field name or literal value of that call.
C24_ErrorsCarryInput ==
    BuilderFailed =>
        \E k \in 1..Len(result.error.values) : result.error.values[k] \in CallTexts

\* the errors that do name their input: the invalid-operator error names the
\* operator, the allow-list error names the field
C24_NamingErrors ==
    BuilderFailed =>
        /\ result.error.template = "Invalid operator: ${condition.operator}"
              => result.error.values[1] \in CallTexts
        /\ result.error.template = "Field ${orderBy.field} is not allowed in ORDER BY clause"
              => result.error.values[1] \in CallTexts

\* a condition with an undefined value was refused
C24_WitnessUndefined ==
    /\ BuilderFailed
    /\ fn = "buildSafeWhereClause"
    /\ args.conditions = <<Condition(<<"N","a","m","e">>, <<"=">>, JsUndefined)>>
    /\ result.error = Error("Undefined values are not allowed in WHERE clauses", <<>>)

\* a limit of 0 was refused
C24_WitnessLimit ==
    /\ BuilderFailed
    /\ fn = "buildSafeQuery"
    /\ args.limit = Some(Finite(0))
    /\ result.error = Error("LIMIT must be a positive integer", <<>>)

(***************************************************************************)
(* tools/manageDebugLogs.ts                                                *)
(***************************************************************************)
\* handleManageDebugLogs is an async function: it runs up to an await of a
\* call of the connection and goes on when the call returns or throws.  A
\* call is written down with what came of it; dates and record ids are left
\* out of the texts.
MaxRecords == 2

ConnCall(call, with) ==
    [call |-> call, with |-> with, outcome |-> "pending", records |-> 0, active |-> FALSE]

\* the handler waits at a place for the calls it has just made
AwaitConn(at, calls, locals) == [pc |-> at, calls |-> calls, locals |-> locals]
ReturnResult(res) == [pc |-> "done", calls |-> <<>>, locals |-> res]

NoLocals == [count |-> 0, deleteError |-> <<>>]

\* catch (error) of the handler
catchManageDebugLogs(message) ==
    ReturnResult(ToolResult(TRUE, "Error managing debug logs: ${error instanceof Error ? error.message : String(error)}", <<message>>))

\* args.expirationTime || 30, args.limit || 10
expirationTimeOf(a) == IF a.expirationTime.defined /\ a.expirationTime.v # 0 THEN a.expirationTime.v ELSE 30
limitOfLogs(a) == IF a.limit.defined /\ a.limit.v # 0 THEN a.limit.v ELSE 10

\* from the start of the function to the first await
startManageDebugLogs(a) ==
    IF a.username = <<>>
    THEN catchManageDebugLogs(<<"u","s","e","r","n","a","m","e"," ","i","s"," ","r","e","q","u","i","r","e","d">>)
    ELSE IF includes(a.username, <<"@">>) \/ ~includes(a.username, <<" ">>)
    THEN AwaitConn("userQuery", <<ConnCall("query", "User WHERE Username =")>>, NoLocals)
    ELSE AwaitConn("userQuery", <<ConnCall("query", "User WHERE Name LIKE")>>, NoLocals)

\* case 'enable', up to the query for an existing trace flag: the handler
\* asks for the level when args.logLevel is undefined or ''
enable(a) ==
    IF ~TruthyString(a.logLevel)
    THEN ReturnResult(ToolResult(TRUE, "Please specify a log level for enabling debug logs. Valid options are: NONE, ERROR, WARN, INFO, DEBUG, FINE, FINER, FINEST.", <<>>))
    ELSE AwaitConn("existingTraceFlag", <<ConnCall("tooling.query", "TraceFlag")>>, NoLocals)

\* from const user = userQuery.records[0] to the next await
withUser(a, active) ==
    IF ~active
    THEN ReturnResult(ToolResult(FALSE, "Warning: User '${args.username}' exists but is inactive. Debug logs may not be generated for inactive users.", <<a.username>>))
    ELSE CASE a.operation = "enable" -> enable(a)
           [] a.operation = "disable" ->
                AwaitConn("traceFlags", <<ConnCall("tooling.query", "TraceFlag")>>, NoLocals)
           [] a.operation = "retrieve" ->
                IF TruthyString(a.logId)
                THEN AwaitConn("logQuery", <<ConnCall("tooling.query", "ApexLog WHERE Id =")>>, NoLocals)
                ELSE AwaitConn("logs", <<ConnCall("tooling.query", "ApexLog WHERE LogUserId =")>>, NoLocals)
           [] OTHER ->
                catchManageDebugLogs(<<"I","n","v","a","l","i","d"," ","o","p","e","r","a","t","i","o","n",":"," ">> \o a.operationText \o <<"."," ","M","u","s","t"," ","b","e"," ",QUOTE,"e","n","a","b","l","e",QUOTE,","," ",QUOTE,"d","i","s","a","b","l","e",QUOTE,","," ","o","r"," ",QUOTE,"r","e","t","r","i","e","v","e",QUOTE,".">>)

\* the awaited call returned: records is the number of records of a query
\* result, active the IsActive of the first one
resumed(at, a, locals, records, active) ==
    CASE at = "userQuery" ->
            IF records = 0
            THEN AwaitConn("userQuery2", <<ConnCall("query", "User WHERE Name LIKE OR Username LIKE")>>, locals)
            ELSE withUser(a, active)
      [] at = "userQuery2" ->
            IF records = 0
            THEN ReturnResult(ToolResult(TRUE, "Error: No user found matching '${args.username}'. Please verify the username or full name and try again.", <<a.username>>))
            ELSE IF records > 1
            THEN ReturnResult(ToolResult(FALSE, "Multiple users found matching '${args.username}'. Please specify which user by providing the exact username:", <<a.username>>))
            ELSE withUser(a, active)
      [] at = "existingTraceFlag" ->
            IF records > 0
            THEN AwaitConn("traceFlagUpdate", <<ConnCall("TraceFlag.update", "ExpirationDate")>>, locals)
            ELSE AwaitConn("debugLevelCreate", <<ConnCall("DebugLevel.create", a.logLevel)>>, locals)
      [] at = "traceFlagUpdate" ->
            ReturnResult(ToolResult(FALSE, "Successfully ${operation} debug logs for user '${args.username}'.", <<<<"u","p","d","a","t","e","d">>, a.username, a.logLevel, expirationTimeOf(a)>>))
      [] at = "debugLevelCreate" ->
            AwaitConn("traceFlagCreate", <<ConnCall("TraceFlag.create", "DebugLevelId")>>, locals)
      [] at = "traceFlagCreate" ->
            ReturnResult(ToolResult(FALSE, "Successfully ${operation} debug logs for user '${args.username}'.", <<<<"e","n","a","b","l","e","d">>, a.username, a.logLevel, expirationTimeOf(a)>>))
      [] at = "traceFlags" ->
            IF records = 0
            THEN ReturnResult(ToolResult(FALSE, "No active debug logs found for user '${args.username}'.", <<a.username>>))
            ELSE AwaitConn("deleteAll", [k \in 1..records |-> ConnCall("TraceFlag.delete", "Id")],
                           [locals EXCEPT !.count = records])
      [] at = "deleteAll" ->
            ReturnResult(ToolResult(FALSE, "Successfully disabled ${traceFlagIds.length} debug log configuration(s) for user '${args.username}' by removing them.", <<locals.count, a.username>>))
      [] at = "updateAll" ->
            ReturnResult(ToolResult(FALSE, "Successfully disabled ${traceFlagIds.length} debug log configuration(s) for user '${args.username}'. They will expire in 5 minutes.", <<locals.count, a.username>>))
      [] at = "logQuery" ->
            IF records = 0
            THEN ReturnResult(ToolResult(FALSE, "No log found with ID '${args.logId}'.", <<a.logId.v>>))
            ELSE IF a.includeBody
            THEN AwaitConn("logBody", <<ConnCall("tooling.request", "ApexLog Body")>>, locals)
            ELSE ReturnResult(ToolResult(FALSE, "**Log Details:** To view the full log content, add \"includeBody\": true to your request.", <<>>))
      [] at = "logBody" ->
            ReturnResult(ToolResult(FALSE, "**Log Details:** **Log Body:**", <<>>))
      [] at = "logs" ->
            IF records = 0
            THEN ReturnResult(ToolResult(FALSE, "No debug logs found for user '${args.username}'.", <<a.username>>))
            ELSE ReturnResult(ToolResult(FALSE, "Found ${logs.records.length} debug logs for user '${args.username}':", <<records, a.username, limitOfLogs(a)>>))

\* the awaited call threw
rejected(at, a, locals, message) ==
    CASE at = "deleteAll" ->
            AwaitConn("updateAll", [k \in 1..locals.count |-> ConnCall("TraceFlag.update", "ExpirationDate")],
                      [locals EXCEPT !.deleteError = message])
      [] at = "updateAll" ->
            catchManageDebugLogs(<<"C","o","u","l","d"," ","n","o","t"," ","d","i","s","a","b","l","e"," ","d","e","b","u","g"," ","l","o","g","s",":"," ">> \o locals.deleteError)
      [] at = "logQuery" ->
            ReturnResult(ToolResult(TRUE, "Error retrieving log: ${error instanceof Error ? error.message : String(error)}", <<message>>))
      [] at = "logBody" ->
            ReturnResult(ToolResult(TRUE, "Error retrieving log body: ${logError instanceof Error ? logError.message : String(logError)}", <<message>>))
      [] OTHER -> catchManageDebugLogs(message)

DebugLogsArgs ==
    {[operation |-> "enable", operationText |-> <<"e","n","a","b","l","e">>, username |-> u, logLevel |-> l, expirationTime |-> e,
      limit |-> Undefined, logId |-> Undefined, includeBody |-> FALSE] :
        u \in {<<>>, <<"u","s","e","r">> \o <<"@">> \o <<"e","x","a","m","p","l","e",".","c","o","m">>, <<"J","a","n","e"," ","D","o","e">>},
        l \in {Undefined, Some(<<>>), Some(<<"D","E","B","U","G">>), Some(<<"F","I","N","E","S","T">>)},
        e \in {Undefined, Some(0), Some(60)}}
    \cup {[operation |-> o[1], operationText |-> o[2], username |-> <<"u","s","e","r">> \o <<"@">> \o <<"e","x","a","m","p","l","e",".","c","o","m">>, logLevel |-> Undefined,
           expirationTime |-> Undefined, limit |-> Undefined, logId |-> Undefined, includeBody |-> FALSE] :
            o \in {<<"disable", <<"d","i","s","a","b","l","e">>>>, <<"purge", <<"p","u","r","g","e">>>>}}
    \cup {[operation |-> "retrieve", operationText |-> <<"r","e","t","r","i","e","v","e">>, username |-> <<"u","s","e","r">> \o <<"@">> \o <<"e","x","a","m","p","l","e",".","c","o","m">>, logLevel |-> Undefined,
           expirationTime |-> Undefined, limit |-> l, logId |-> i, includeBody |-> b] :
            l \in {Undefined, Some(5)}, i \in {Undefined, Some(<<>>), Some(<<"0","7","L","1">>)}, b \in BOOLEAN}

ConnErrors == {<<"I","N","V","A","L","I","D","_","S","E","S","S","I","O","N","_","I","D">>}

\* the calls of the connection that the handler waits for
Pending == {k \in 1..Len(queries) : queries[k].outcome = "pending"}

Proceed(step) ==
    /\ pc' = step.pc
    /\ result' = step.locals
    /\ queries' = [k \in 1..Len(queries) |-> IF k \in Pending
                                              THEN [queries[k] EXCEPT !.outcome = "returned"]
                                              ELSE queries[k]] \o step.calls

CallHandleManageDebugLogs(a) ==
    /\ pc = "idle"
    /\ fn' = "handleManageDebugLogs"
    /\ args' = a
    /\ Proceed(startManageDebugLogs(a))

\* the awaited call (each of the calls under Promise.all) returns
ConnReturns(records, active) ==
    /\ fn = "handleManageDebugLogs"
    /\ pc \notin {"idle", "done"}
    /\ LET step == resumed(pc, args, result, records, active)
       IN /\ pc' = step.pc
          /\ result' = step.locals
          /\ queries' = [k \in 1..Len(queries) |->
                            IF k \in Pending
                            THEN [queries[k] EXCEPT !.outcome = "returned", !.records = records, !.active = active]
                            ELSE queries[k]] \o step.calls
    /\ UNCHANGED <<fn, args>>

\* the awaited call (one of the calls under Promise.all) throws
ConnThrows(message) ==
    /\ fn = "handleManageDebugLogs"
    /\ pc \notin {"idle", "done"}
    /\ LET step == rejected(pc, args, result, message)
       IN /\ pc' = step.pc
          /\ result' = step.locals
          /\ queries' = [k \in 1..Len(queries) |->
                            IF k \in Pending THEN [queries[k] EXCEPT !.outcome = "threw"] ELSE queries[k]]
                        \o step.calls
    /\ UNCHANGED <<fn, args>>

NextDebugLogs ==
    \/ pc = "idle" /\ \E a \in DebugLogsArgs : CallHandleManageDebugLogs(a)
    \/ \E records \in 0..MaxRecords, active \in BOOLEAN : ConnReturns(records, active)
    \/ \E message \in ConnErrors : ConnThrows(message)

SpecDebugLogs == Init /\ [][NextDebugLogs]_vars

\* the handler was called with operation 'enable' and has returned
EnableEnded == fn = "handleManageDebugLogs" /\ pc = "done" /\ args.operation = "enable"

\* the user lookup found one user, who is active, and no call threw
ActiveUserFound ==
    /\ \A k \in 1..Len(queries) : queries[k].outcome # "threw"
    /\ \E k \in 1..Len(queries) :
          /\ queries[k].call = "query"
          /\ queries[k].outcome = "returned"
          /\ queries[k].records = 1
          /\ queries[k].active

TraceFlagWritten ==
    \E k \in 1..Len(queries) : queries[k].call \in {"TraceFlag.create", "TraceFlag.update"}

\* the level that new debug levels were created with
LevelsUsed == {queries[k].with : k \in {j \in 1..Len(queries) : queries[j].call = "DebugLevel.create"}}

\* C26: for the enable operation on an existing active user, logLevel is
\* optional: when it is omitted the operation goes on with log level DEBUG
\* and creates or updates a trace flag.
C26_EnableDefaultsLevel ==
    EnableEnded /\ ActiveUserFound /\ ~args.logLevel.defined =>
        /\ ~result.isError
        /\ TraceFlagWritten
        /\ LevelsUsed \subseteq {Some(<<"D","E","B","U","G">>)}

\* with a level given, the operation creates or updates a trace flag, a new
\* debug level having the level given
C26_EnableWithLevel ==
    EnableEnded /\ ActiveUserFound /\ TruthyString(args.logLevel) =>
        /\ ~result.isError
        /\ TraceFlagWritten
        /\ LevelsUsed \subseteq {args.logLevel}

\* enable without a level on an existing active user ended by asking for one
C26_WitnessAsked ==
    /\ EnableEnded
    /\ ActiveUserFound
    /\ ~args.logLevel.defined
    /\ result.isError
    /\ ~TraceFlagWritten

\* enable with a level created a debug level and a trace flag
C26_WitnessEnabled ==
    /\ EnableEnded
    /\ ActiveUserFound
    /\ args.logLevel = Some(<<"F","I","N","E","S","T">>)
    /\ LevelsUsed = {Some(<<"F","I","N","E","S","T">>)}
    /\ TraceFlagWritten

(***************************************************************************)
(* What the handlers return once conn.query has returned or thrown         *)
(***************************************************************************)
\* the texts of the catch blocks
ErrorExecutingTemplates ==
    {"Error executing query: ${message}",
     "Error executing query: Invalid relationship field \"${invalidField}\". Please check: ...",
     "Error executing aggregate query: ${message}",
     "Error executing aggregate query: Query error: ${errorMessage}\n\nCommon issues: ..."}

\* the text of the result has the message in it
TextHas(res, message) == \E k \in 1..Len(res.text.values) : includes(res.text.values[k], message)

ReportsException(res, message) ==
    /\ res.isError
    /\ res.text.template \in ErrorExecutingTemplates
    /\ TextHas(res, message)

\* C25: handleQueryRecords and handleAggregateQuery always return a result
\* object: when conn.query throws, the result has isError = true and its text
\* is the exception message after 'Error executing query' or 'Error executing
\* aggregate query'; when conn.query returns, the result has isError = false.
C25_HandlersNeverThrow ==
    [][/\ \A message \in ExceptionInputs : QueryThrows(message) => ReportsException(result', message)
       /\ \A rows \in RowInputs : QueryReturns(rows) => ~result'.isError]_vars

\* handleAggregateQuery does so
C25_AggregateQueryReports ==
    [][fn = "handleAggregateQuery" =>
          /\ \A message \in ExceptionInputs : QueryThrows(message) => ReportsException(result', message)
          /\ \A rows \in RowInputs : QueryReturns(rows) => ~result'.isError]_vars

\* every call of a handler that has ended has ended with a result object
C25_ResultObject ==
    IsHandler /\ pc = "done" => result.isError \in BOOLEAN

\* conn.query threw INVALID_FIELD for a relationship field: the text names
\* the field and leaves the message out
C25_WitnessEnhanced ==
    /\ fn = "handleQueryRecords"
    /\ pc = "done"
    /\ queries # <<>>
    /\ result.isError
    /\ result.text.template = "Error executing query: Invalid relationship field \"${invalidField}\". Please check: ..."
    /\ result.text.values = <<<<"A","c","c","o","u","n","t",".","F","o","o">>>>

\* conn.query returned and formatting the records threw
C25_WitnessFormatting ==
    /\ fn = "handleQueryRecords"
    /\ pc = "done"
    /\ queries # <<>>
    /\ result.isError
    /\ result.text.template = "Error executing query: Cannot read properties of undefined"

(***************************************************************************)
(* handleQueryRecords and buildSafeQuery on the same simple select         *)
(***************************************************************************)
\* handleQueryRecords was called without a WHERE or ORDER BY text and has
\* returned a validation error or called conn.query
SimpleSelectBuilt ==
    /\ fn = "handleQueryRecords"
    /\ BuildEnded
    /\ ~args.whereClause.defined
    /\ ~args.orderBy.defined

\* buildSafeQuery on the object name, field list and limit of the call
SameBuild == buildSafeQuery(QueryParams(args.objectName, args.fields, Undefined, Undefined, args.limit))

\* C27: for every object name, field list and limit, without WHERE and
\* ORDER BY, buildSafeQuery returns a query text if and only if
\* handleQueryRecords submits a query, and then the two texts are the same:
\* buildSafeQuery too enforces the relationship depth cap of 5 and the
\* subquery pattern, and handleQueryRecords rejects no field that
\* buildSafeQuery accepts.
C27_EntryPointsAgree ==
    SimpleSelectBuilt =>
        /\ SameBuild.ok <=> pc = "querying"
        /\ SameBuild.ok => queries[Len(queries)] = SameBuild.value

\* one direction holds: a query that handleQueryRecords submits is the text
\* that buildSafeQuery returns
C27_SubmittedIsBuilt ==
    SimpleSelectBuilt /\ pc = "querying" =>
        /\ SameBuild.ok
        /\ queries[Len(queries)] = SameBuild.value

\* a path of six segments: buildSafeQuery returns a query, handleQueryRecords
\* reports the depth
C27_WitnessDepth ==
    /\ SimpleSelectBuilt
    /\ args.fields = <<<<"a",".","b",".","c",".","d",".","e",".","f">>>>
    /\ pc = "done"
    /\ result.isError
    /\ SameBuild = Returned(<<"S","E","L","E","C","T"," ","a",".","b",".","c",".","d",".","e",".","f"," ","F","R","O","M"," ">> \o args.objectName)

\* both give the same text
C27_WitnessSame ==
    /\ SimpleSelectBuilt
    /\ pc = "querying"
    /\ args.fields = <<<<"I","d">>, <<"A","c","c","o","u","n","t",".","N","a","m","e">>>>
    /\ args.limit = Some(NumberOf(10))
    /\ SameBuild = Returned(<<"S","E","L","E","C","T"," ","I","d",","," ","A","c","c","o","u","n","t",".","N","a","m","e"," ","F","R","O","M"," ","A","c","c","o","u","n","t"," ","L","I","M","I","T"," ","1","0">>)

(***************************************************************************)
(* index.ts: the tool list and the dispatch of tool calls                  *)
(***************************************************************************)
READ_ONLY_TOOLS ==
    <<"salesforce_search_objects", "salesforce_describe_object", "salesforce_query_records",
      "salesforce_aggregate_query", "salesforce_search_all", "salesforce_execute_anonymous">>

WRITE_TOOLS ==
    <<"salesforce_dml_records", "salesforce_manage_object", "salesforce_manage_field",
      "salesforce_manage_field_permissions", "salesforce_manage_debug_logs", "salesforce_read_apex",
      "salesforce_write_apex", "salesforce_read_apex_trigger", "salesforce_write_apex_trigger">>

\* process.env.ENABLE_WRITE_TOOLS: a string, or undefined
getTools(enableWriteTools) ==
    IF enableWriteTools = Some("true") THEN READ_ONLY_TOOLS \o WRITE_TOOLS ELSE READ_ONLY_TOOLS

\* the case labels of the switch on the tool name
Cases == {READ_ONLY_TOOLS[k] : k \in 1..Len(READ_ONLY_TOOLS)} \cup {WRITE_TOOLS[k] : k \in 1..Len(WRITE_TOOLS)}

\* the cases that hand args to the handler without a check of required ones
UncheckedCases == {"salesforce_read_apex", "salesforce_read_apex_trigger"}

\* what a request did: it opened a connection, it called the handler of a tool
Connected == [event |-> "createSalesforceConnection", tool |-> ""]
Handled(name) == [event |-> "handler", tool |-> name]

\* the catch block of the CallTool handler
catchCallTool(message, events) ==
    [response |-> ToolResult(TRUE, "Error: ${error instanceof Error ? error.message : String(error)}", <<message>>),
     events |-> events]

\* the CallTool handler (the same code for the stdio server and for the
\* server made for each HTTP request): request.connects says whether
\* createSalesforceConnection succeeds, request.hasRequired whether the
\* required arguments of the case are there, request.handlerResult is what the
\* handler of the tool returns
callTool(enableWriteTools, request) ==
    IF ~request.hasArguments
    THEN catchCallTool("Arguments are required", <<>>)
    ELSE IF ~request.connects
    THEN catchCallTool("connection failed", <<Connected>>)
    ELSE IF request.name \notin Cases
    THEN [response |-> ToolResult(TRUE, "Unknown tool: ${name}", <<request.name>>), events |-> <<Connected>>]
    ELSE IF request.name \notin UncheckedCases /\ ~request.hasRequired
    THEN catchCallTool("required arguments are missing", <<Connected>>)
    ELSE [response |-> request.handlerResult, events |-> <<Connected, Handled(request.name)>>]

EnvInputs == {Undefined, Some("true"), Some("false"), Some("TRUE"), Some("1")}

CallToolRequests ==
    {[name |-> n, hasArguments |-> ha, connects |-> c, hasRequired |-> hr, handlerResult |-> r] :
        n \in Cases \cup {"salesforce_drop_everything"}, ha \in BOOLEAN, c \in BOOLEAN, hr \in BOOLEAN,
        r \in {ToolResult(FALSE, "handled", <<>>), ToolResult(TRUE, "handler failed", <<>>)}}

\* the process starts with its environment
StartServer(enableWriteTools) ==
    /\ pc = "idle"
    /\ pc' = "serving"
    /\ fn' = "main"
    /\ args' = [env |-> enableWriteTools]
    /\ UNCHANGED <<result, queries>>

\* a ListTools request, over stdio or HTTP
ListTools(via) ==
    /\ pc = "serving"
    /\ fn' = "ListTools"
    /\ args' = [env |-> args.env, via |-> via]
    /\ result' = [tools |-> getTools(args.env)]
    /\ queries' = <<>>
    /\ UNCHANGED pc

\* a CallTool request, over stdio or HTTP
CallTool(via, request) ==
    /\ pc = "serving"
    /\ fn' = "CallTool"
    /\ args' = [env |-> args.env, via |-> via, request |-> request]
    /\ LET r == callTool(args.env, request)
       IN /\ result' = r.response
          /\ queries' = r.events
    /\ UNCHANGED pc

Transports == {"stdio", "http"}

NextTools ==
    \/ pc = "idle" /\ \E e \in EnvInputs : StartServer(e)
    \/ \E via \in Transports : ListTools(via)
    \/ \E via \in Transports, request \in CallToolRequests : CallTool(via, request)

SpecTools == Init /\ [][NextTools]_vars

\* the names ListTools gives in the environment of the process
ListedNames == {getTools(args.env)[k] : k \in 1..Len(getTools(args.env))}

WriteToolsOff == pc = "serving" /\ args.env # Some("true")
CallToolDone == pc = "serving" /\ fn = "CallTool"
HandlerReached == \E k \in 1..Len(queries) : queries[k].event = "handler"
ConnectionOpened == \E k \in 1..Len(queries) : queries[k] = Connected

\* the seven tools the sentence names
NamedWriteTools ==
    {"salesforce_dml_records", "salesforce_manage_object", "salesforce_manage_field",
     "salesforce_manage_field_permissions", "salesforce_manage_debug_logs",
     "salesforce_write_apex", "salesforce_write_apex_trigger"}

\* C28: when ENABLE_WRITE_TOOLS is not 'true', a CallTool request reaches a
\* handler only for a tool that ListTools returns: a request naming
\* salesforce_dml_records, salesforce_manage_object, salesforce_manage_field,
\* salesforce_manage_field_permissions, salesforce_manage_debug_logs,
\* salesforce_write_apex or salesforce_write_apex_trigger never reaches its
\* handler and never opens a Salesforce connection.
C28_WriteToolsGatedAtCall ==
    WriteToolsOff /\ CallToolDone =>
        /\ \A k \in 1..Len(queries) : queries[k].event = "handler" => queries[k].tool \in ListedNames
        /\ args.request.name \in NamedWriteTools => ~HandlerReached /\ ~ConnectionOpened

\* what holds: ListTools leaves the write tools out unless the variable is
\* exactly 'true', and a handler is reached only for the tool the request names
C28_ListGated ==
    /\ WriteToolsOff /\ fn = "ListTools" =>
          \A k \in 1..Len(result.tools) : result.tools[k] \notin {WRITE_TOOLS[j] : j \in 1..Len(WRITE_TOOLS)}
    /\ CallToolDone =>
          \A k \in 1..Len(queries) : queries[k].event = "handler" => queries[k].tool = args.request.name

\* with write tools off, a call of salesforce_dml_records reached its handler
C28_WitnessReached ==
    /\ WriteToolsOff
    /\ CallToolDone
    /\ args.env = Undefined
    /\ args.request.name = "salesforce_dml_records"
    /\ queries = <<Connected, Handled("salesforce_dml_records")>>
    /\ ~result.isError

(***************************************************************************)
(* GROUP BY membership in the select-list check and in the ORDER BY check  *)
(***************************************************************************)
\* the field, were it a select entry, passes the select-list GROUP BY check
PassesSelectCheck(field) == validateGroupByFields(<<field>>, args.groupByFields).isValid

\* the field is accepted as an ORDER BY entry
AcceptedInOrderBy(field) == validateOrderBy(Some(field), args.groupByFields, args.selectFields).isValid

\* C29: GROUP BY membership is judged the same way by both aggregate checks,
\* entries of groupByFields with leading or trailing whitespace included: a
\* field that satisfies the select-list GROUP BY check is accepted as an
\* ORDER BY entry by validateOrderBy, and a field rejected as an ORDER BY
\* entry would be reported missing by validateGroupByFields if selected.
C29_SameGroupByMembership ==
    fn = "handleAggregateQuery" /\ BuildEnded /\ IsNonEmpty(args.orderBy) =>
        \A k \in 1..Len(EntryFields(args)) :
            /\ PassesSelectCheck(EntryFields(args)[k]) => AcceptedInOrderBy(EntryFields(args)[k])
            /\ ~AcceptedInOrderBy(EntryFields(args)[k]) =>
                  validateGroupByFields(<<EntryFields(args)[k]>>, args.groupByFields).missingFields
                      = <<EntryFields(args)[k]>>

\* the other direction holds: what the ORDER BY check takes for a member of
\* GROUP BY passes the select-list check
C29_OrderByMemberIsSelectable ==
    fn = "handleAggregateQuery" /\ BuildEnded /\ IsNonEmpty(args.orderBy) =>
        \A k \in 1..Len(EntryFields(args)) :
            EntryFields(args)[k] \in Range(args.groupByFields) => PassesSelectCheck(EntryFields(args)[k])

\* StageName is selected and grouped by as ' StageName ': the select-list
\* check passes and ORDER BY StageName is refused
C29_WitnessUntrimmed ==
    /\ OrderByCheckFailed
    /\ args.selectFields = <<<<"S","t","a","g","e","N","a","m","e">>>>
    /\ args.groupByFields = <<<<" ","S","t","a","g","e","N","a","m","e"," ">>>>
    /\ args.orderBy = Some(<<"S","t","a","g","e","N","a","m","e"," ","D","E","S","C">>)
    /\ result.text.values = <<<<"S","t","a","g","e","N","a","m","e">>>>
    /\ PassesSelectCheck(<<"S","t","a","g","e","N","a","m","e">>)

(***************************************************************************)
(* Empty clauses in the text of an aggregate query                         *)
(***************************************************************************)
\* the check of the salesforce_aggregate_query case before the handler is
\* called: objectName is there and selectFields and groupByFields are arrays
\* (they are arrays in every modelled call)
aggregateArgsAccepted(a) == a.objectName # <<>>

\* the text that the call passed to conn.query
SubmittedText == queries[Len(queries)]

EmptyGroupByList ==
    \/ endsWith(SubmittedText, <<" ","G","R","O","U","P"," ","B","Y"," ">>)
    \/ \E next \in {<<"H","A","V","I","N","G"," ">>, <<"O","R","D","E","R"," ","B","Y"," ">>, <<"L","I","M","I","T"," ">>} : includes(SubmittedText, <<" ","G","R","O","U","P"," ","B","Y"," "," ">> \o next)

\* C30: every query text that handleAggregateQuery passes to conn.query has a
\* non-empty select list and a non-empty GROUP BY list, an empty selectFields
\* or groupByFields array being rejected before querying, and the keywords
\* WHERE, HAVING and ORDER BY are in it only with a non-empty clause body.
C30_NoEmptyClause ==
    AggregatePassed /\ aggregateArgsAccepted(args) =>
        /\ args.selectFields # <<>>
        /\ args.groupByFields # <<>>
        /\ ~startsWith(SubmittedText, <<"S","E","L","E","C","T"," "," ","F","R","O","M"," ">>)
        /\ ~EmptyGroupByList
        /\ includes(SubmittedText, <<" ","W","H","E","R","E"," ">>) => IsNonEmpty(args.whereClause)
        /\ includes(SubmittedText, <<" ","H","A","V","I","N","G"," ">>) => IsNonEmpty(args.havingClause)
        /\ includes(SubmittedText, <<" ","O","R","D","E","R"," ","B","Y"," ">>) => IsNonEmpty(args.orderBy)

\* the part on WHERE, HAVING and ORDER BY holds
C30_OptionalClausesNonEmpty ==
    AggregatePassed =>
        /\ includes(SubmittedText, <<" ","W","H","E","R","E"," ">>) => IsNonEmpty(args.whereClause)
        /\ includes(SubmittedText, <<" ","H","A","V","I","N","G"," ">>) => IsNonEmpty(args.havingClause)
        /\ includes(SubmittedText, <<" ","O","R","D","E","R"," ","B","Y"," ">>) => IsNonEmpty(args.orderBy)
        /\ (endsWith(SubmittedText, <<" ","W","H","E","R","E"," ">>) \/ endsWith(SubmittedText, <<" ","H","A","V","I","N","G"," ">>)
              \/ endsWith(SubmittedText, <<" ","O","R","D","E","R"," ","B","Y"," ">>)) = FALSE

\* empty selectFields and groupByFields: the text has neither list
C30_WitnessEmptyLists ==
    /\ AggregatePassed
    /\ aggregateArgsAccepted(args)
    /\ args.selectFields = <<>>
    /\ args.groupByFields = <<>>
    /\ SubmittedText = <<"S","E","L","E","C","T"," "," ","F","R","O","M"," ","O","p","p","o","r","t","u","n","i","t","y"," ","G","R","O","U","P"," ","B","Y"," ">>

\* a call with all three optional clauses
C30_WitnessAllClauses ==
    /\ AggregatePassed
    /\ includes(SubmittedText, <<" ","W","H","E","R","E"," ","A","m","o","u","n","t"," ",">"," ","1"," ","G","R","O","U","P"," ","B","Y"," ">>)
    /\ includes(SubmittedText, <<" ","H","A","V","I","N","G"," ","C","O","U","N","T","(","I","d",")"," ",">"," ","1"," ","O","R","D","E","R"," ","B","Y"," ","S","t","a","g","e","N","a","m","e"," ","D","E","S","C">>)

====
